---- MODULE Spec2Model ----
(***************************************************************************)
(* Branch-and-bound drivers of thunderandreign/dsa-compilation:            *)
(*   k_  strategies/6-branch-and-bound/KnapsackBranchBound.c               *)
(*   t_  strategies/6-branch-and-bound/TravelingSalesman.c                 *)
(*   j_  strategies/6-branch-and-bound/JobAssignment.c                     *)
(*   f_  strategies/6-branch-and-bound/FacilityLocation.c                  *)
(*   n_  strategies/6-branch-and-bound/NQueensOptimized.c                  *)
(*   b_  Design Strategies/Branch_Bound.c                                  *)
(* The C files reuse the same global names (n, best_cost, pq_push, ...);   *)
(* each name carries the prefix of its file here.  Arrays are 0-based in   *)
(* the source and are sequences (1-based) here: a[i] is written a[i + 1].  *)
(* A double is modelled as an exact fraction [num, den] (knapsack bounds)  *)
(* or as an IEEE double held in limbs (facility-location bounds).          *)
(***************************************************************************)
EXTENDS Integers, Sequences, FiniteSets, TLC

VARIABLES
    \* KnapsackBranchBound.c
    k_items, k_capacity, k_max_profit, k_best_solution,
    k_nodes_explored, k_nodes_pruned, k_pq, k_pc, k_built,
    \* Design Strategies/Branch_Bound.c
    b_items, b_W, b_q, b_maxProfit, b_bestItems, b_heap, b_pc,
    \* TravelingSalesman.c
    t_graph, t_best_cost, t_best_path, t_nodes_explored, t_nodes_pruned,
    t_pq, t_pc, t_built,
    \* JobAssignment.c
    j_cost_matrix, j_min_cost, j_best_assignment, j_nodes_explored,
    j_nodes_pruned, j_pq, j_pc, j_built,
    \* FacilityLocation.c
    f_facility_costs, f_service_costs, f_num_customers, f_best_solution,
    f_best_cost, f_nodes_explored, f_nodes_pruned, f_pq, f_pc, f_built, f_result,
    \* NQueensOptimized.c
    n_n, n_max_solutions, n_optimization_mode, n_result, n_pq, n_pc,
    n_current, n_built,
    \* a PriorityQueue driven by arbitrary pq_push / pq_pop calls
    h_file, h_pq, h_before, h_popped,
    \* the outcome of an earlier run of a driver on the same instance
    r_first

k_vars == <<k_items, k_capacity, k_max_profit, k_best_solution,
            k_nodes_explored, k_nodes_pruned, k_pq, k_pc, k_built>>

b_vars == <<b_items, b_W, b_q, b_maxProfit, b_bestItems, b_heap, b_pc>>

t_vars == <<t_graph, t_best_cost, t_best_path, t_nodes_explored, t_nodes_pruned,
            t_pq, t_pc, t_built>>

j_vars == <<j_cost_matrix, j_min_cost, j_best_assignment, j_nodes_explored,
            j_nodes_pruned, j_pq, j_pc, j_built>>

f_vars == <<f_facility_costs, f_service_costs, f_num_customers, f_best_solution,
            f_best_cost, f_nodes_explored, f_nodes_pruned, f_pq, f_pc, f_built,
            f_result>>

n_vars == <<n_n, n_max_solutions, n_optimization_mode, n_result, n_pq, n_pc,
            n_current, n_built>>

h_vars == <<h_file, h_pq, h_before, h_popped>>

vars == <<k_vars, b_vars, t_vars, j_vars, f_vars, n_vars, h_vars, r_first>>

\* the variables of the other programs stay as they are
k_alone == UNCHANGED <<b_vars, t_vars, j_vars, f_vars, n_vars, h_vars, r_first>>
b_alone == UNCHANGED <<k_vars, t_vars, j_vars, f_vars, n_vars, h_vars, r_first>>
t_alone == UNCHANGED <<k_vars, b_vars, j_vars, f_vars, n_vars, h_vars, r_first>>
j_alone == UNCHANGED <<k_vars, b_vars, t_vars, f_vars, n_vars, h_vars, r_first>>
f_alone == UNCHANGED <<k_vars, b_vars, t_vars, j_vars, n_vars, h_vars, r_first>>
n_alone == UNCHANGED <<k_vars, b_vars, t_vars, j_vars, f_vars, h_vars, r_first>>
h_alone == UNCHANGED <<k_vars, b_vars, t_vars, j_vars, f_vars, n_vars, r_first>>

----------------------------------------------------------------------------
\* Bounds of the instance families

MaxItems == 3
MaxWeight == 2
MaxValue == 3
MaxCap == 5
MaxCities == 3
MaxDist == 2
MaxWorkers == 3
MaxCost == 2
MaxFacilities == 3
MaxCustomers == 3
MaxCells == 6
MaxFacilityCost == 2
MaxServiceCost == 2
MaxBoard == 6
MaxSolutions == 3
MaxQueue == 5
MaxTieSize == 2
MaxLiveSize == 2
\* length of the nodes array of a PriorityQueue, scaled to the instance family
MaxNodes == 3
MaxBound == 3

----------------------------------------------------------------------------
\* Helpers

\* the one element of a set of one element; {e(v) : v \in {a}} computes a
\* once and e from its value
Only(S) == CHOOSE v \in S : TRUE

Range(s) == {s[i] : i \in 1..Len(s)}

\* fractions with positive denominators
Frac(a, b) == [num |-> a, den |-> b]
FracLT(x, y) == x.num * y.den < y.num * x.den
FracLE(x, y) == x.num * y.den <= y.num * x.den
FracGT(x, y) == FracLT(y, x)
FracGE(x, y) == FracLE(y, x)

Swap(s, i, j) == [s EXCEPT ![i + 1] = s[j + 1], ![j + 1] = s[i + 1]]

Zeros(len) == [i \in 1..len |-> 0]

\* INT_MAX, the INF of TravelingSalesman.c and JobAssignment.c
INF == 2147483647

\* stands for DBL_MAX of <float.h>: larger than every cost of the model, and a
\* double of that magnitude absorbs every cost added to it
DBL_MAX == 1000000000

\* MAX_N of NQueensOptimized.c
MAX_N == 12

Abs(x) == IF x < 0 THEN -x ELSE x

SetMin(S) == CHOOSE x \in S : \A y \in S : x <= y

\* the rearrangements of len array slots
Perms(len) == {p \in [1..len -> 1..len] : \A a, b \in 1..len : a # b => p[a] # p[b]}

----------------------------------------------------------------------------
\* KnapsackBranchBound.c

k_n == Len(k_items)

\* items[i].ratio as set by the callers: (double)value / weight
k_ratio(it) == Frac(it.value, it.weight)

\* compare_items(a, b) <= 0 for every adjacent pair: what qsort guarantees
k_sorted(its) ==
    \A i \in 1..Len(its), j \in 1..Len(its) :
        i < j => FracGE(k_ratio(its[i]), k_ratio(its[j]))

\* qsort(items, n, sizeof(Item), compare_items): the order of items that
\* compare equal is unspecified, so every sorted arrangement is a result
k_qsort(its) ==
    {s \in {[a \in 1..Len(its) |-> its[p[a]]] : p \in Perms(Len(its))} : k_sorted(s)}

RECURSIVE k_bubble_up(_, _)
k_bubble_up(nodes, i) ==
    IF i > 0
    THEN LET parent == (i - 1) \div 2 IN
         IF FracLE(nodes[i + 1].bound, nodes[parent + 1].bound)
         THEN nodes
         ELSE k_bubble_up(Swap(nodes, i, parent), parent)
    ELSE nodes

k_pq_push(pq, node) == k_bubble_up(Append(pq, node), Len(pq))

RECURSIVE k_bubble_down(_, _)
k_bubble_down(nodes, i) ==
    IF 2 * i + 1 < Len(nodes)
    THEN LET left == 2 * i + 1
             right == 2 * i + 2
             largest == IF right < Len(nodes)
                           /\ FracGT(nodes[right + 1].bound, nodes[left + 1].bound)
                        THEN right ELSE left
         IN IF FracGE(nodes[i + 1].bound, nodes[largest + 1].bound)
            THEN nodes
            ELSE k_bubble_down(Swap(nodes, i, largest), largest)
    ELSE nodes

\* pq_pop returns nodes[0] and leaves the queue k_pq_pop(pq)
k_pq_top(pq) == pq[1]
k_pq_pop(pq) ==
    IF Len(pq) = 1 THEN <<>>
    ELSE k_bubble_down([SubSeq(pq, 1, Len(pq) - 1) EXCEPT ![1] = pq[Len(pq)]], 0)

RECURSIVE k_bound_loop(_, _, _)
k_bound_loop(i, bound, remaining_capacity) ==
    IF i < k_n
    THEN IF k_items[i + 1].weight <= remaining_capacity
         THEN k_bound_loop(i + 1, bound + k_items[i + 1].value,
                           remaining_capacity - k_items[i + 1].weight)
         ELSE Frac(bound * k_items[i + 1].weight
                       + k_items[i + 1].value * remaining_capacity,
                   k_items[i + 1].weight)
    ELSE Frac(bound, 1)

k_calculate_bound(node) ==
    IF node.weight >= k_capacity THEN Frac(0, 1)
    ELSE k_bound_loop(node.level, node.profit, k_capacity - node.weight)

k_with_bound(node) == [node EXCEPT !.bound = k_calculate_bound(node)]

k_root ==
    [level |-> 0, profit |-> 0, weight |-> 0, bound |-> Frac(0, 1),
     included |-> Zeros(k_n)]

\* solve_knapsack up to the first loop test
k_Start ==
    /\ k_pc = "start"
    /\ UNCHANGED k_capacity
    /\ \E sorted \in k_qsort(k_items) :
          /\ k_items' = sorted
          /\ k_max_profit' = 0
          /\ k_best_solution' = Zeros(Len(sorted))
          /\ k_nodes_explored' = 0
          /\ k_nodes_pruned' = 0
          /\ LET root == [k_root EXCEPT !.bound = k_calculate_bound(k_root)']
             IN /\ k_pq' = k_pq_push(<<>>, root)
                /\ k_built' = {root}
    /\ k_pc' = "loop"

\* one loop iteration ending in the pruning "continue"
k_Prune ==
    /\ k_pc = "loop" /\ Len(k_pq) > 0
    /\ LET current == k_pq_top(k_pq) IN
       /\ FracLE(current.bound, Frac(k_max_profit, 1))
       /\ k_pq' = k_pq_pop(k_pq)
       /\ k_nodes_explored' = k_nodes_explored + 1
       /\ k_nodes_pruned' = k_nodes_pruned + 1
       /\ k_built' = {}
    /\ UNCHANGED <<k_items, k_capacity, k_max_profit, k_best_solution, k_pc>>

\* variant: the leaf iteration without the memcpy into best_solution
k_Leaf_no_copy ==
    /\ k_pc = "loop" /\ Len(k_pq) > 0
    /\ LET current == k_pq_top(k_pq) IN
       /\ ~FracLE(current.bound, Frac(k_max_profit, 1))
       /\ current.level = k_n
       /\ k_pq' = k_pq_pop(k_pq)
       /\ k_nodes_explored' = k_nodes_explored + 1
       /\ IF current.profit > k_max_profit
          THEN k_max_profit' = current.profit
          ELSE UNCHANGED k_max_profit
       /\ k_built' = {}
    /\ UNCHANGED <<k_items, k_capacity, k_nodes_pruned, k_pc, k_best_solution>>

\* one loop iteration on a leaf node
k_Leaf ==
    /\ k_pc = "loop" /\ Len(k_pq) > 0
    /\ LET current == k_pq_top(k_pq) IN
       /\ ~FracLE(current.bound, Frac(k_max_profit, 1))
       /\ current.level = k_n
       /\ k_pq' = k_pq_pop(k_pq)
       /\ k_nodes_explored' = k_nodes_explored + 1
       /\ IF current.profit > k_max_profit
          THEN /\ k_max_profit' = current.profit
               /\ k_best_solution' = current.included
          ELSE UNCHANGED <<k_max_profit, k_best_solution>>
       /\ k_built' = {}
    /\ UNCHANGED <<k_items, k_capacity, k_nodes_pruned, k_pc>>

\* the include branch without "include_node.included[current.level] = 1"
k_include_node_unmarked(current) ==
    k_with_bound([current EXCEPT
        !.level = current.level + 1,
        !.profit = current.profit + k_items[current.level + 1].value,
        !.weight = current.weight + k_items[current.level + 1].weight])

\* variant: the include branch without "include_node.weight += ..."
k_include_node_light(current) ==
    k_with_bound([current EXCEPT
        !.level = current.level + 1,
        !.profit = current.profit + k_items[current.level + 1].value,
        !.included[current.level + 1] = 1])

k_include_node(current) ==
    k_with_bound([current EXCEPT
        !.level = current.level + 1,
        !.profit = current.profit + k_items[current.level + 1].value,
        !.weight = current.weight + k_items[current.level + 1].weight,
        !.included[current.level + 1] = 1])

k_exclude_node(current) ==
    k_with_bound([current EXCEPT !.level = current.level + 1])

\* the test applied to a freshly built child
k_promising(node) == FracGT(node.bound, Frac(k_max_profit, 1))

\* one loop iteration that branches on items[current.level]
k_Branch ==
    /\ k_pc = "loop" /\ Len(k_pq) > 0
    /\ LET current == k_pq_top(k_pq) IN
       /\ ~FracLE(current.bound, Frac(k_max_profit, 1))
       /\ current.level # k_n
       /\ LET fits == current.weight + k_items[current.level + 1].weight <= k_capacity
              inc == k_include_node(current)
              exc == k_exclude_node(current)
              pq0 == k_pq_pop(k_pq)
              pq1 == IF fits /\ k_promising(inc) THEN k_pq_push(pq0, inc) ELSE pq0
              pq2 == IF k_promising(exc) THEN k_pq_push(pq1, exc) ELSE pq1
              pruned == (IF fits /\ ~k_promising(inc) THEN 1 ELSE 0)
                        + (IF ~k_promising(exc) THEN 1 ELSE 0)
          IN /\ k_pq' = pq2
             /\ k_nodes_pruned' = k_nodes_pruned + pruned
             /\ k_built' = (IF fits THEN {inc} ELSE {}) \cup {exc}
       /\ k_nodes_explored' = k_nodes_explored + 1
    /\ UNCHANGED <<k_items, k_capacity, k_max_profit, k_best_solution, k_pc>>

\* the loop test fails: solve_knapsack returns
\* variant: the loop is not left when the queue is empty
k_Finish_stuck ==
    /\ k_pc = "loop" /\ Len(k_pq) = 0
    /\ UNCHANGED k_vars

k_Finish ==
    /\ k_pc = "loop" /\ Len(k_pq) = 0
    /\ k_pc' = "done"
    /\ k_built' = {}
    /\ UNCHANGED <<k_items, k_capacity, k_max_profit, k_best_solution,
                   k_nodes_explored, k_nodes_pruned, k_pq>>

\* brute_force_knapsack: max_profit of the result
k_bit(mask, i) == (mask \div (2 ^ i)) % 2

RECURSIVE k_mask_sum(_, _, _)
k_mask_sum(mask, i, field) ==
    IF i < k_n
    THEN (IF k_bit(mask, i) = 1 THEN k_items[i + 1][field] ELSE 0)
         + k_mask_sum(mask, i + 1, field)
    ELSE 0

RECURSIVE k_brute_loop(_, _)
k_brute_loop(mask, best) ==
    IF mask < 2 ^ k_n
    THEN LET current_weight == k_mask_sum(mask, 0, "weight")
             current_profit == k_mask_sum(mask, 0, "value")
         IN k_brute_loop(mask + 1,
                IF current_weight <= k_capacity /\ current_profit > best
                THEN current_profit ELSE best)
    ELSE best

brute_force_knapsack == k_brute_loop(0, 0)

\* item sequences of the family, one order per multiset of items
k_Item(w, v, idx) == [weight |-> w, value |-> v, index |-> idx]
k_key(it) == it.weight * (MaxValue + 1) + it.value
k_Instances ==
    UNION {
        {s \in [1..len -> [weight : 1..MaxWeight, value : 1..MaxValue, index : 0..(len - 1)]] :
            /\ \A i \in 1..len : s[i].index = i - 1
            /\ \A i \in 1..(len - 1) : k_key(s[i]) <= k_key(s[i + 1])}
        : len \in 1..MaxItems}

k_Init ==
    /\ k_items \in k_Instances
    /\ k_capacity \in 0..MaxCap
    /\ k_max_profit = 0
    /\ k_best_solution = <<>>
    /\ k_nodes_explored = 0
    /\ k_nodes_pruned = 0
    /\ k_pq = <<>>
    /\ k_pc = "start"
    /\ k_built = {}

\* the program is not running
k_Idle ==
    /\ k_items = <<>>
    /\ k_capacity = 0
    /\ k_max_profit = 0
    /\ k_best_solution = <<>>
    /\ k_nodes_explored = 0
    /\ k_nodes_pruned = 0
    /\ k_pq = <<>>
    /\ k_pc = "off"
    /\ k_built = {}

----------------------------------------------------------------------------
\* Design Strategies/Branch_Bound.c

b_n == Len(b_items)

b_ratio(it) == Frac(it.value, it.weight)

\* qsort(items, n, sizeof(Item), cmp): descending ratio, ties in any order
b_qsort(its) ==
    {s \in {[a \in 1..Len(its) |-> its[p[a]]] : p \in Perms(Len(its))} :
        \A i \in 1..Len(s), j \in 1..Len(s) :
            i < j => FracGE(b_ratio(s[i]), b_ratio(s[j]))}

RECURSIVE b_bound_loop(_, _, _)
b_bound_loop(j, totweight, profit_bound) ==
    IF j < b_n /\ totweight + b_items[j + 1].weight <= b_W
    THEN b_bound_loop(j + 1, totweight + b_items[j + 1].weight,
                      profit_bound + b_items[j + 1].value)
    ELSE IF j < b_n
         THEN Frac(profit_bound * b_items[j + 1].weight
                       + (b_W - totweight) * b_items[j + 1].value,
                   b_items[j + 1].weight)
         ELSE Frac(profit_bound, 1)

b_bound(u) ==
    IF u.weight >= b_W THEN Frac(0, 1)
    ELSE b_bound_loop(u.level + 1, u.weight, u.profit)

b_enqueue(q, node) == Append(q, node)
b_dequeue(q) == Tail(q)

\* The Nodes obtained from calloc, in the order of the calls: b_heap[a] is
\* the number of times free was called on the a-th of them, and a Node
\* carries its number in the field addr.
b_calloc(heap) == Append(heap, 0)

\* variant: free that releases nothing
b_free_nothing(heap, node) == heap

b_free(heap, node) == [heap EXCEPT ![node.addr] = @ + 1]

\* main up to the first dequeue
b_Start ==
    /\ b_pc = "start"
    /\ UNCHANGED b_W
    /\ \E sorted \in b_qsort(b_items) :
          /\ b_items' = sorted
          /\ LET u == [level |-> -1, profit |-> 0, weight |-> 0,
                       bound |-> Frac(0, 1), itemsTaken |-> <<>>, addr |-> 1]
             IN b_q' = b_enqueue(<<>>, [u EXCEPT !.bound = b_bound(u)'])
    /\ b_heap' = b_calloc(<<>>)
    /\ b_maxProfit' = 0
    /\ b_bestItems' = <<>>
    /\ b_pc' = "loop"

\* the child that takes items[u.level + 1], before its bound is set; addr is
\* the number of the Node that calloc returned
b_take(u, addr) ==
    [level |-> u.level + 1, addr |-> addr,
     weight |-> u.weight + b_items[u.level + 2].weight,
     profit |-> u.profit + b_items[u.level + 2].value,
     bound |-> Frac(0, 1),
     itemsTaken |-> Append(u.itemsTaken, b_items[u.level + 2].name)]

\* the child that does not take it
b_skip(u, addr) ==
    [level |-> u.level + 1, addr |-> addr, weight |-> u.weight, profit |-> u.profit,
     bound |-> Frac(0, 1), itemsTaken |-> u.itemsTaken]

\* one iteration of the search loop: a dequeued node of the last level is
\* freed, any other node is expanded into its two children
b_Iterate ==
    /\ b_pc = "loop" /\ Len(b_q) > 0
    /\ LET u == Head(b_q)
           q0 == b_dequeue(b_q)
       IN IF u.level = b_n - 1
          THEN /\ b_q' = q0
               /\ b_heap' = b_free(b_heap, u)
               /\ UNCHANGED <<b_maxProfit, b_bestItems>>
          ELSE LET heap1 == b_calloc(b_heap)
                   v1 == b_take(u, Len(heap1))
                   better == v1.weight <= b_W /\ v1.profit > b_maxProfit
                   maxProfit1 == IF better THEN v1.profit ELSE b_maxProfit
                   t1 == [v1 EXCEPT !.bound = b_bound(v1)]
                   keep1 == FracGT(t1.bound, Frac(maxProfit1, 1))
                   q1 == IF keep1 THEN b_enqueue(q0, t1) ELSE q0
                   heap2 == b_calloc(IF keep1 THEN heap1 ELSE b_free(heap1, t1))
                   v2 == b_skip(u, Len(heap2))
                   t2 == [v2 EXCEPT !.bound = b_bound(v2)]
                   keep2 == FracGT(t2.bound, Frac(maxProfit1, 1))
                   q2 == IF keep2 THEN b_enqueue(q1, t2) ELSE q1
                   heap3 == IF keep2 THEN heap2 ELSE b_free(heap2, t2)
               IN /\ b_heap' = b_free(heap3, u)
                  /\ b_maxProfit' = maxProfit1
                  /\ b_bestItems' = IF better THEN v1.itemsTaken ELSE b_bestItems
                  /\ b_q' = q2
    /\ UNCHANGED <<b_items, b_W, b_pc>>

\* dequeue returns NULL: the loop ends and the result is printed
b_Finish ==
    /\ b_pc = "loop" /\ Len(b_q) = 0
    /\ b_pc' = "done"
    /\ UNCHANGED <<b_items, b_W, b_q, b_maxProfit, b_bestItems, b_heap>>

\* the initialised globals W and items[]
b_Init ==
    /\ b_W = 7
    /\ b_items = << [name |-> "A", weight |-> 1, value |-> 15],
                    [name |-> "B", weight |-> 3, value |-> 20],
                    [name |-> "C", weight |-> 4, value |-> 30],
                    [name |-> "D", weight |-> 5, value |-> 40] >>
    /\ b_q = <<>>
    /\ b_maxProfit = 0
    /\ b_bestItems = <<>>
    /\ b_heap = <<>>
    /\ b_pc = "start"

b_Idle ==
    /\ b_W = 0
    /\ b_items = <<>>
    /\ b_q = <<>>
    /\ b_maxProfit = 0
    /\ b_bestItems = <<>>
    /\ b_heap = <<>>
    /\ b_pc = "off"

----------------------------------------------------------------------------
\* next_permutation (the same text in JobAssignment.c and TravelingSalesman.c)

RECURSIVE np_find_i(_, _)
np_find_i(arr, i) ==
    IF i >= 0 /\ arr[i + 1] >= arr[i + 2] THEN np_find_i(arr, i - 1) ELSE i

RECURSIVE np_find_j(_, _, _)
np_find_j(arr, i, j) ==
    IF arr[j + 1] <= arr[i + 1] THEN np_find_j(arr, i, j - 1) ELSE j

RECURSIVE np_reverse(_, _, _)
np_reverse(arr, left, right) ==
    IF left < right THEN np_reverse(Swap(arr, left, right), left + 1, right - 1)
    ELSE arr

\* [more |-> the return value is 1, arr |-> the array afterwards]
next_permutation(arr) ==
    LET i == np_find_i(arr, Len(arr) - 2) IN
    IF i < 0 THEN [more |-> FALSE, arr |-> arr]
    ELSE LET j == np_find_j(arr, i, Len(arr) - 1)
         IN [more |-> TRUE,
             arr |-> np_reverse(Swap(arr, i, j), i + 1, Len(arr) - 1)]

----------------------------------------------------------------------------
\* TravelingSalesman.c

t_n == Len(t_graph)
t_g(i, j) == t_graph[i + 1][j + 1]

RECURSIVE t_bubble_up(_, _)
t_bubble_up(nodes, i) ==
    IF i > 0
    THEN LET parent == (i - 1) \div 2 IN
         IF nodes[i + 1].bound >= nodes[parent + 1].bound
         THEN nodes
         ELSE t_bubble_up(Swap(nodes, i, parent), parent)
    ELSE nodes

t_pq_push(pq, node) == t_bubble_up(Append(pq, node), Len(pq))

RECURSIVE t_bubble_down(_, _)
t_bubble_down(nodes, i) ==
    IF 2 * i + 1 < Len(nodes)
    THEN LET left == 2 * i + 1
             right == 2 * i + 2
             smallest == IF right < Len(nodes)
                            /\ nodes[right + 1].bound < nodes[left + 1].bound
                         THEN right ELSE left
         IN IF nodes[i + 1].bound <= nodes[smallest + 1].bound
            THEN nodes
            ELSE t_bubble_down(Swap(nodes, i, smallest), smallest)
    ELSE nodes

t_pq_top(pq) == pq[1]
t_pq_pop(pq) ==
    IF Len(pq) = 1 THEN <<>>
    ELSE t_bubble_down([SubSeq(pq, 1, Len(pq) - 1) EXCEPT ![1] = pq[Len(pq)]], 0)

\* the two smallest distinct edge costs out of city i: <<min1, min2>>
RECURSIVE t_two_smallest(_, _, _, _)
t_two_smallest(i, j, min1, min2) ==
    IF j < t_n
    THEN IF i # j /\ t_g(i, j) < min1
         THEN t_two_smallest(i, j + 1, t_g(i, j), min1)
         ELSE IF i # j /\ t_g(i, j) < min2 /\ t_g(i, j) # min1
              THEN t_two_smallest(i, j + 1, min1, t_g(i, j))
              ELSE t_two_smallest(i, j + 1, min1, min2)
    ELSE <<min1, min2>>

\* path[k] of the source is node.path[k + 1]; only path[0..level) is ever read
t_last(node) == node.path[node.level]

t_contribution(node, i) ==
    LET m == t_two_smallest(i, 0, INF, INF) IN
    IF node.visited[i + 1] = 1 /\ node.level > 0 /\ i # t_last(node)
    THEN m[1]
    ELSE IF m[2] # INF THEN (m[1] + m[2]) \div 2 ELSE m[1]

RECURSIVE t_bound_loop(_, _, _)
t_bound_loop(node, i, bound) ==
    IF i < t_n
    THEN IF node.visited[i + 1] = 0 \/ (node.level > 0 /\ i = t_last(node))
         THEN t_bound_loop(node, i + 1, bound + t_contribution(node, i))
         ELSE t_bound_loop(node, i + 1, bound)
    ELSE bound

t_calculate_bound(node) == t_bound_loop(node, 0, node.cost)

t_root ==
    [path |-> <<0>>, visited |-> [i \in 1..t_n |-> IF i = 1 THEN 1 ELSE 0],
     cost |-> 0, level |-> 1, bound |-> 0]

\* solve_tsp up to the first loop test
t_Start ==
    /\ t_pc = "start"
    /\ t_best_cost' = INF
    /\ t_nodes_explored' = 0
    /\ t_nodes_pruned' = 0
    /\ LET root == [t_root EXCEPT !.bound = t_calculate_bound(t_root)]
       IN /\ t_pq' = t_pq_push(<<>>, root)
          /\ t_built' = {root}
    /\ t_pc' = "loop"
    /\ UNCHANGED <<t_graph, t_best_path>>

\* one loop iteration ending in the pruning "continue"
t_Prune ==
    /\ t_pc = "loop" /\ Len(t_pq) > 0
    /\ t_pq_top(t_pq).bound >= t_best_cost
    /\ t_pq' = t_pq_pop(t_pq)
    /\ t_nodes_explored' = t_nodes_explored + 1
    /\ t_nodes_pruned' = t_nodes_pruned + 1
    /\ t_built' = {}
    /\ UNCHANGED <<t_graph, t_best_cost, t_best_path, t_pc>>

\* the cost of the complete tour of a node with level == n
\* variant: the edge back to city 0 is left out
t_total_cost_open(current) == current.cost

\* variant: the bound of the complete tour is taken as its cost
t_total_cost_bound(current) == current.bound

t_total_cost(current) == current.cost + t_g(current.path[t_n], 0)

\* variant: the tour found is stored without comparing it with best_cost
t_Tour_unconditional ==
    /\ t_pc = "loop" /\ Len(t_pq) > 0
    /\ LET current == t_pq_top(t_pq) IN
       /\ ~(current.bound >= t_best_cost)
       /\ current.level = t_n
       /\ t_best_cost' = t_total_cost(current)
       /\ t_best_path' = Append(current.path, 0)
    /\ t_pq' = t_pq_pop(t_pq)
    /\ t_nodes_explored' = t_nodes_explored + 1
    /\ t_built' = {}
    /\ UNCHANGED <<t_graph, t_nodes_pruned, t_pc>>

\* one loop iteration on a complete tour
t_Tour ==
    /\ t_pc = "loop" /\ Len(t_pq) > 0
    /\ LET current == t_pq_top(t_pq) IN
       /\ ~(current.bound >= t_best_cost)
       /\ current.level = t_n
       /\ IF t_total_cost(current) < t_best_cost
          THEN /\ t_best_cost' = t_total_cost(current)
               /\ t_best_path' = Append(current.path, 0)
          ELSE UNCHANGED <<t_best_cost, t_best_path>>
    /\ t_pq' = t_pq_pop(t_pq)
    /\ t_nodes_explored' = t_nodes_explored + 1
    /\ t_built' = {}
    /\ UNCHANGED <<t_graph, t_nodes_pruned, t_pc>>

t_child(current, city) ==
    LET c == [current EXCEPT
                 !.path = Append(current.path, city),
                 !.visited[city + 1] = 1,
                 !.level = current.level + 1,
                 !.cost = current.cost + t_g(t_last(current), city)]
    IN [c EXCEPT !.bound = t_calculate_bound(c)]

\* the branching loop from city on; acc = [pq, pruned, built]
RECURSIVE t_branch(_, _, _)
t_branch(current, city, acc) ==
    IF city < t_n
    THEN IF current.visited[city + 1] = 0
         THEN LET child == t_child(current, city) IN
              IF child.bound < t_best_cost
              THEN t_branch(current, city + 1,
                       [acc EXCEPT !.pq = t_pq_push(acc.pq, child),
                                   !.built = acc.built \cup {child}])
              ELSE t_branch(current, city + 1,
                       [acc EXCEPT !.pruned = acc.pruned + 1,
                                   !.built = acc.built \cup {child}])
         ELSE t_branch(current, city + 1, acc)
    ELSE acc

\* one loop iteration that branches to the unvisited cities
t_Branch ==
    /\ t_pc = "loop" /\ Len(t_pq) > 0
    /\ LET current == t_pq_top(t_pq) IN
       /\ ~(current.bound >= t_best_cost)
       /\ current.level # t_n
       /\ LET r == t_branch(current, 1,
                       [pq |-> t_pq_pop(t_pq), pruned |-> 0, built |-> {}])
          IN /\ t_pq' = r.pq
             /\ t_nodes_pruned' = t_nodes_pruned + r.pruned
             /\ t_built' = r.built
    /\ t_nodes_explored' = t_nodes_explored + 1
    /\ UNCHANGED <<t_graph, t_best_cost, t_best_path, t_pc>>

\* the loop test fails: solve_tsp returns
t_Finish ==
    /\ t_pc = "loop" /\ Len(t_pq) = 0
    /\ t_pc' = "done"
    /\ t_built' = {}
    /\ UNCHANGED <<t_graph, t_best_cost, t_best_path, t_nodes_explored,
                   t_nodes_pruned, t_pq>>

\* cost of the tour 0 -> cities[0] -> ... -> cities[n-2] -> 0
RECURSIVE t_tour_cost(_, _, _)
t_tour_cost(cities, i, prev) ==
    IF i < Len(cities)
    THEN t_g(prev, cities[i + 1]) + t_tour_cost(cities, i + 1, cities[i + 1])
    ELSE t_g(prev, 0)

\* brute_force_tsp: cost of the result
RECURSIVE t_brute_loop(_, _)
t_brute_loop(cities, min_cost) ==
    LET cost == t_tour_cost(cities, 0, 0)
        m == IF cost < min_cost THEN cost ELSE min_cost
        nx == next_permutation(cities)
    IN IF nx.more THEN t_brute_loop(nx.arr, m) ELSE m

brute_force_tsp == t_brute_loop([i \in 1..(t_n - 1) |-> i], INF)

\* scenario B, Test Case 1 of main
t_ScenarioB ==
    << <<0, 10, 15, 20>>, <<10, 0, 35, 25>>, <<15, 35, 0, 30>>, <<20, 25, 30, 0>> >>

\* complete distance matrices of the family: zero diagonal, costs 0..MaxDist
t_Instances ==
    UNION {
        {g \in [1..len -> [1..len -> 0..MaxDist]] : \A i \in 1..len : g[i][i] = 0}
        : len \in 2..MaxCities}

t_Init ==
    /\ t_graph \in t_Instances \cup {t_ScenarioB}
    /\ t_best_cost = 0
    /\ t_best_path = Zeros(Len(t_graph) + 1)
    /\ t_nodes_explored = 0
    /\ t_nodes_pruned = 0
    /\ t_pq = <<>>
    /\ t_pc = "start"
    /\ t_built = {}

t_Idle ==
    /\ t_graph = <<>>
    /\ t_best_cost = 0
    /\ t_best_path = <<>>
    /\ t_nodes_explored = 0
    /\ t_nodes_pruned = 0
    /\ t_pq = <<>>
    /\ t_pc = "off"
    /\ t_built = {}

----------------------------------------------------------------------------
\* JobAssignment.c

j_n == Len(j_cost_matrix)
j_c(worker, job) == j_cost_matrix[worker + 1][job + 1]

RECURSIVE j_bubble_up(_, _)
j_bubble_up(nodes, i) ==
    IF i > 0
    THEN LET parent == (i - 1) \div 2 IN
         IF nodes[i + 1].bound >= nodes[parent + 1].bound
         THEN nodes
         ELSE j_bubble_up(Swap(nodes, i, parent), parent)
    ELSE nodes

j_pq_push(pq, node) == j_bubble_up(Append(pq, node), Len(pq))

\* variant: the right child is never looked at
RECURSIVE j_bubble_down_left(_, _)
j_bubble_down_left(nodes, i) ==
    IF 2 * i + 1 < Len(nodes)
    THEN LET smallest == 2 * i + 1
         IN IF nodes[i + 1].bound <= nodes[smallest + 1].bound
            THEN nodes
            ELSE j_bubble_down_left(Swap(nodes, i, smallest), smallest)
    ELSE nodes

RECURSIVE j_bubble_down(_, _)
j_bubble_down(nodes, i) ==
    IF 2 * i + 1 < Len(nodes)
    THEN LET left == 2 * i + 1
             right == 2 * i + 2
             smallest == IF right < Len(nodes)
                            /\ nodes[right + 1].bound < nodes[left + 1].bound
                         THEN right ELSE left
         IN IF nodes[i + 1].bound <= nodes[smallest + 1].bound
            THEN nodes
            ELSE j_bubble_down(Swap(nodes, i, smallest), smallest)
    ELSE nodes

\* variant: pq_pop without "pq->nodes[0] = pq->nodes[pq->size]"
j_pq_pop_keep_first(pq) ==
    IF Len(pq) = 1 THEN <<>>
    ELSE j_bubble_down(SubSeq(pq, 1, Len(pq) - 1), 0)

j_pq_top(pq) == pq[1]
j_pq_pop(pq) ==
    IF Len(pq) = 1 THEN <<>>
    ELSE j_bubble_down([SubSeq(pq, 1, Len(pq) - 1) EXCEPT ![1] = pq[Len(pq)]], 0)

\* the inner loop of calculate_bound: cheapest job not marked in worker_used
RECURSIVE j_row_min(_, _, _, _)
j_row_min(node, worker, job, min_cost) ==
    IF job < j_n
    THEN IF node.worker_used[job + 1] = 0 /\ j_c(worker, job) < min_cost
         THEN j_row_min(node, worker, job + 1, j_c(worker, job))
         ELSE j_row_min(node, worker, job + 1, min_cost)
    ELSE min_cost

\* variant: every remaining worker's cheapest job is counted twice
RECURSIVE j_bound_loop_twice(_, _, _)
j_bound_loop_twice(node, worker, bound) ==
    IF worker < j_n
    THEN LET min_cost == j_row_min(node, worker, 0, INF) IN
         j_bound_loop_twice(node, worker + 1,
                            IF min_cost # INF THEN bound + 2 * min_cost ELSE bound)
    ELSE bound

RECURSIVE j_bound_loop(_, _, _)
j_bound_loop(node, worker, bound) ==
    IF worker < j_n
    THEN LET min_cost == j_row_min(node, worker, 0, INF) IN
         j_bound_loop(node, worker + 1,
                      IF min_cost # INF THEN bound + min_cost ELSE bound)
    ELSE bound

j_calculate_bound(node) == j_bound_loop(node, node.level, node.cost)

j_root ==
    [level |-> 0, cost |-> 0, bound |-> 0,
     assignment |-> [i \in 1..j_n |-> -1],
     worker_used |-> Zeros(j_n)]

\* solve_assignment up to the first loop test
j_Start ==
    /\ j_pc = "start"
    /\ j_min_cost' = INF
    /\ j_best_assignment' = [i \in 1..j_n |-> -1]
    /\ j_nodes_explored' = 0
    /\ j_nodes_pruned' = 0
    /\ LET root == [j_root EXCEPT !.bound = j_calculate_bound(j_root)]
       IN /\ j_pq' = j_pq_push(<<>>, root)
          /\ j_built' = {root}
    /\ j_pc' = "loop"
    /\ UNCHANGED j_cost_matrix

\* one loop iteration ending in the pruning "continue"
j_Prune ==
    /\ j_pc = "loop" /\ Len(j_pq) > 0
    /\ j_pq_top(j_pq).bound >= j_min_cost
    /\ j_pq' = j_pq_pop(j_pq)
    /\ j_nodes_explored' = j_nodes_explored + 1
    /\ j_nodes_pruned' = j_nodes_pruned + 1
    /\ j_built' = {}
    /\ UNCHANGED <<j_cost_matrix, j_min_cost, j_best_assignment, j_pc>>

\* one loop iteration on a complete assignment
j_Complete ==
    /\ j_pc = "loop" /\ Len(j_pq) > 0
    /\ LET current == j_pq_top(j_pq) IN
       /\ ~(current.bound >= j_min_cost)
       /\ current.level = j_n
       /\ IF current.cost < j_min_cost
          THEN /\ j_min_cost' = current.cost
               /\ j_best_assignment' = current.assignment
          ELSE UNCHANGED <<j_min_cost, j_best_assignment>>
    /\ j_pq' = j_pq_pop(j_pq)
    /\ j_nodes_explored' = j_nodes_explored + 1
    /\ j_built' = {}
    /\ UNCHANGED <<j_cost_matrix, j_nodes_pruned, j_pc>>

\* variant: the child's cost is the last worker's cost alone
j_child_last_only(current, job) ==
    LET c == [current EXCEPT
                 !.level = current.level + 1,
                 !.assignment[current.level + 1] = job,
                 !.worker_used[job + 1] = 1,
                 !.cost = j_c(current.level, job)]
    IN [c EXCEPT !.bound = j_calculate_bound(c)]

\* variant: the child keeps the bound copied from its parent
j_child_parent_bound(current, job) ==
    [current EXCEPT
        !.level = current.level + 1,
        !.assignment[current.level + 1] = job,
        !.worker_used[job + 1] = 1,
        !.cost = current.cost + j_c(current.level, job)]

j_child(current, job) ==
    LET c == [current EXCEPT
                 !.level = current.level + 1,
                 !.assignment[current.level + 1] = job,
                 !.worker_used[job + 1] = 1,
                 !.cost = current.cost + j_c(current.level, job)]
    IN [c EXCEPT !.bound = j_calculate_bound(c)]

\* the branching loop from job on; acc = [pq, pruned, built]
RECURSIVE j_branch(_, _, _)
j_branch(current, job, acc) ==
    IF job < j_n
    THEN IF current.worker_used[job + 1] = 0
         THEN Only({IF child.bound < j_min_cost
                    THEN j_branch(current, job + 1,
                             [a EXCEPT !.pq = j_pq_push(a.pq, child),
                                       !.built = a.built \cup {child}])
                    ELSE j_branch(current, job + 1,
                             [a EXCEPT !.pruned = a.pruned + 1,
                                       !.built = a.built \cup {child}]) :
                    child \in {j_child(current, job)}, a \in {acc}})
         ELSE j_branch(current, job + 1, acc)
    ELSE acc

\* one loop iteration that branches to the available jobs
j_Branch ==
    /\ j_pc = "loop" /\ Len(j_pq) > 0
    /\ LET current == j_pq_top(j_pq) IN
       /\ ~(current.bound >= j_min_cost)
       /\ current.level # j_n
       /\ LET r == j_branch(current, 0,
                       [pq |-> j_pq_pop(j_pq), pruned |-> 0, built |-> {}])
          IN /\ j_pq' = r.pq
             /\ j_nodes_pruned' = j_nodes_pruned + r.pruned
             /\ j_built' = r.built
    /\ j_nodes_explored' = j_nodes_explored + 1
    /\ UNCHANGED <<j_cost_matrix, j_min_cost, j_best_assignment, j_pc>>

\* the loop test fails: solve_assignment returns
j_Finish ==
    /\ j_pc = "loop" /\ Len(j_pq) = 0
    /\ j_pc' = "done"
    /\ j_built' = {}
    /\ UNCHANGED <<j_cost_matrix, j_min_cost, j_best_assignment,
                   j_nodes_explored, j_nodes_pruned, j_pq>>

\* sum of cost_matrix[worker][jobs[worker]] over the workers from worker on
RECURSIVE j_assignment_cost(_, _)
j_assignment_cost(jobs, worker) ==
    IF worker < j_n
    THEN j_c(worker, jobs[worker + 1]) + j_assignment_cost(jobs, worker + 1)
    ELSE 0

\* brute_force_assignment: min_cost of the result
RECURSIVE j_brute_loop(_, _)
j_brute_loop(jobs, min_cost) ==
    LET cost == j_assignment_cost(jobs, 0)
        m == IF cost < min_cost THEN cost ELSE min_cost
        nx == next_permutation(jobs)
    IN IF nx.more THEN j_brute_loop(nx.arr, m) ELSE m

brute_force_assignment == j_brute_loop([i \in 1..j_n |-> i - 1], INF)

\* scenario C, Test Case 1 of main
j_ScenarioC ==
    << <<9, 2, 7, 8>>, <<6, 4, 3, 7>>, <<5, 8, 1, 8>>, <<7, 6, 9, 4>> >>

\* n x n cost matrices of the family, costs 0..MaxCost
j_Instances ==
    UNION {[1..len -> [1..len -> 0..MaxCost]] : len \in 1..MaxWorkers}

j_Init ==
    /\ j_cost_matrix \in j_Instances \cup {j_ScenarioC}
    /\ j_min_cost = 0
    /\ j_best_assignment = Zeros(Len(j_cost_matrix))
    /\ j_nodes_explored = 0
    /\ j_nodes_pruned = 0
    /\ j_pq = <<>>
    /\ j_pc = "start"
    /\ j_built = {}

j_Idle ==
    /\ j_cost_matrix = <<>>
    /\ j_min_cost = 0
    /\ j_best_assignment = <<>>
    /\ j_nodes_explored = 0
    /\ j_nodes_pruned = 0
    /\ j_pq = <<>>
    /\ j_pc = "off"
    /\ j_built = {}

----------------------------------------------------------------------------
\* FacilityLocation.c
\* facility_costs and service_costs hold integers here.  A double computed
\* from them by additions alone is that integer exactly and is held as an
\* integer; the bound takes quotients by num_customers and is held as an IEEE
\* double (d_ operators below).

\* A non-negative double x that is 0 or lies in [2^-4, 2^8), held exactly as
\* the integer x * 2^56 in four 16-bit limbs, most significant first.  In
\* that range one unit in the last place of x is a whole number of 2^-56.
d_of_int(n) == <<n * 256, 0, 0, 0>>

d_lt(x, y) ==
    \E k \in 1..4 : x[k] < y[k] /\ \A h \in 1..(k - 1) : x[h] = y[h]
d_le(x, y) == ~d_lt(y, x)
d_ge(x, y) == ~d_lt(x, y)

\* exact sum of two limb sequences
d_add_limbs(a, b) ==
    Only({LET s4 == x[4] + y[4]
              s3 == x[3] + y[3] + (s4 \div 65536)
              s2 == x[2] + y[2] + (s3 \div 65536)
              s1 == x[1] + y[1] + (s2 \div 65536)
          IN <<s1, s2 % 65536, s3 % 65536, s4 % 65536>> : x \in {a}, y \in {b}})

\* one unit in the last place (53-bit significand) of the binade of x, in 2^-56
d_ulp(x) == 2 ^ ((CHOOSE p \in 4..15 : 2 ^ p <= x[1] /\ x[1] < 2 ^ (p + 1)) - 4)

\* round-to-nearest-even of the exact value x + r/n (in 2^-56, 0 <= r < n)
d_round(a, r, n) ==
    Only({IF x[1] = 0 THEN x
          ELSE Only({LET low == x[4] % ulp
                         down == [x EXCEPT ![4] = x[4] - low]
                         up == d_add_limbs(down, <<0, 0, 0, ulp>>)
                         twice == 2 * low * n + 2 * r
                     IN IF twice < ulp * n THEN down
                        ELSE IF twice > ulp * n THEN up
                        ELSE IF (x[4] \div ulp) % 2 = 1 THEN up ELSE down
                     : ulp \in {d_ulp(x)}}) : x \in {a}})

\* x + y on doubles
d_add(x, y) == d_round(d_add_limbs(x, y), 0, 1)

\* (double)a / n for integers a >= 0 and n >= 1, by long division
d_div(a, n) ==
    LET q1 == (a * 256) \div n
        r1 == (a * 256) % n
        q2 == (r1 * 65536) \div n
        r2 == (r1 * 65536) % n
        q3 == (r2 * 65536) \div n
        r3 == (r2 * 65536) % n
        q4 == (r3 * 65536) \div n
        r4 == (r3 * 65536) % n
    IN d_round(<<q1, q2, q3, q4>>, r4, n)

d_min(S) == CHOOSE x \in S : \A y \in S : d_le(x, y)

f_num_facilities == Len(f_facility_costs)
f_fc(i) == f_facility_costs[i + 1]
f_sc(i, j) == f_service_costs[i + 1][j + 1]

RECURSIVE f_bubble_up(_, _)
f_bubble_up(nodes, i) ==
    IF i > 0
    THEN LET parent == (i - 1) \div 2 IN
         IF d_ge(nodes[i + 1].bound, nodes[parent + 1].bound)
         THEN nodes
         ELSE f_bubble_up(Swap(nodes, i, parent), parent)
    ELSE nodes

f_pq_push(pq, node) == f_bubble_up(Append(pq, node), Len(pq))

RECURSIVE f_bubble_down(_, _)
f_bubble_down(nodes, i) ==
    IF 2 * i + 1 < Len(nodes)
    THEN LET left == 2 * i + 1
             right == 2 * i + 2
             smallest == IF right < Len(nodes)
                            /\ d_lt(nodes[right + 1].bound, nodes[left + 1].bound)
                         THEN right ELSE left
         IN IF d_le(nodes[i + 1].bound, nodes[smallest + 1].bound)
            THEN nodes
            ELSE f_bubble_down(Swap(nodes, i, smallest), smallest)
    ELSE nodes

f_pq_top(pq) == pq[1]
f_pq_pop(pq) ==
    IF Len(pq) = 1 THEN <<>>
    ELSE f_bubble_down([SubSeq(pq, 1, Len(pq) - 1) EXCEPT ![1] = pq[Len(pq)]], 0)

f_has_open_facility(node) ==
    \E i \in 0..(node.level - 1) : node.facility_open[i + 1] = 1

\* the values min_service_cost of customer j is lowered to in calculate_bound
f_bound_candidates(node, j) ==
    LET opened == {d_of_int(f_sc(i, j)) :
                     i \in {x \in 0..(node.level - 1) : node.facility_open[x + 1] = 1}}
        remaining ==
            IF ~f_has_open_facility(node) \/ node.level < f_num_facilities
            THEN {IF ~f_has_open_facility(node)
                  THEN d_add(d_of_int(f_sc(i, j)), d_div(f_fc(i), f_num_customers))
                  ELSE d_of_int(f_sc(i, j)) :
                    i \in node.level..(f_num_facilities - 1)}
            ELSE {}
    IN opened \cup remaining

\* min_service_cost stays DBL_MAX, and is skipped, when there is no candidate
RECURSIVE f_bound_loop(_, _, _)
f_bound_loop(node, j, bound) ==
    IF j < f_num_customers
    THEN Only({f_bound_loop(node, j + 1,
                   IF cands # {} THEN d_add(bound, d_min(cands)) ELSE bound) :
               cands \in {f_bound_candidates(node, j)}})
    ELSE bound

f_calculate_bound(node) == f_bound_loop(node, 0, d_of_int(node.fixed_cost))

\* cheapest service cost of a customer among the facilities marked in
\* facility_open, DBL_MAX when none is (get_current_service_cost and the
\* inner loops of calculate_service_cost and construct_solution)
f_get_current_service_cost(customer, facility_open) ==
    LET open == {i \in 0..(f_num_facilities - 1) : facility_open[i + 1] = 1}
    IN IF open = {} THEN DBL_MAX ELSE SetMin({f_sc(i, customer) : i \in open})

RECURSIVE f_service_loop(_, _, _)
f_service_loop(node, j, service_cost) ==
    IF j < f_num_customers
    THEN LET min_cost == f_get_current_service_cost(j, node.facility_open) IN
         IF min_cost # DBL_MAX
         THEN f_service_loop(node, j + 1, service_cost + min_cost)
         ELSE DBL_MAX
    ELSE service_cost

f_calculate_service_cost(node) == f_service_loop(node, 0, 0)

\* a + b for doubles where b may be DBL_MAX
f_add(a, b) == IF b = DBL_MAX THEN DBL_MAX ELSE a + b

RECURSIVE f_fixed_sum(_, _)
f_fixed_sum(facility_open, i) ==
    IF i < f_num_facilities
    THEN (IF facility_open[i + 1] = 1 THEN f_fc(i) ELSE 0)
         + f_fixed_sum(facility_open, i + 1)
    ELSE 0

\* variant: the cheapest facility for customer j, open or not
f_best_facility_any(facility_open, j) ==
    LET m == SetMin({f_sc(i, j) : i \in 0..(f_num_facilities - 1)}) IN
    SetMin({i \in 0..(f_num_facilities - 1) : f_sc(i, j) = m})

\* the first open facility with the cheapest service cost for customer j
f_best_facility(facility_open, j) ==
    LET m == f_get_current_service_cost(j, facility_open) IN
    SetMin({i \in 0..(f_num_facilities - 1) :
               facility_open[i + 1] = 1 /\ f_sc(i, j) = m})

f_construct_solution(node) ==
    Only({LET fixed == f_fixed_sum(open, 0)
          IN IF \A i \in 1..f_num_facilities : open[i] = 0
             THEN \* infeasible: customer_assignment is left unset and is never read
                  [facility_open |-> open, customer_assignment |-> <<>>,
                   fixed_cost |-> fixed, service_cost |-> 0, total_cost |-> DBL_MAX]
             ELSE LET service == f_service_loop([facility_open |-> open], 0, 0) IN
                  [facility_open |-> open,
                   customer_assignment |->
                       [j \in 1..f_num_customers |-> f_best_facility(open, j - 1)],
                   fixed_cost |-> fixed, service_cost |-> service,
                   total_cost |-> fixed + service] :
          open \in {[i \in 1..f_num_facilities |-> node.facility_open[i]]}})

\* "improvement += DBL_MAX / num_customers" per unserved customer absorbs the
\* facility cost and the savings; with every customer served the sum is exact
f_calculate_improvement(facility, facility_open, customer_served) ==
    LET unserved == {j \in 0..(f_num_customers - 1) : customer_served[j + 1] = 0}
        served == {j \in 0..(f_num_customers - 1) : customer_served[j + 1] = 1}
        saving(j) ==
            LET current_cost == f_get_current_service_cost(j, facility_open)
                new_cost == f_sc(facility, j)
            IN IF new_cost < current_cost THEN current_cost - new_cost ELSE 0
        savings[S \in SUBSET served] ==
            IF S = {} THEN 0
            ELSE LET j == CHOOSE x \in S : TRUE IN saving(j) + savings[S \ {j}]
    IN IF unserved # {}
       THEN Cardinality(unserved) * (DBL_MAX \div f_num_customers)
       ELSE savings[served] - f_fc(facility)

\* the scan "for i: if improvement > best_improvement" of one greedy round:
\* [best_improvement, best_facility]
RECURSIVE f_greedy_scan(_, _, _, _)
f_greedy_scan(i, facility_open, customer_served, best) ==
    IF i < f_num_facilities
    THEN LET improvement == f_calculate_improvement(i, facility_open, customer_served) IN
         IF facility_open[i + 1] = 0 /\ improvement > best.best_improvement
         THEN f_greedy_scan(i + 1, facility_open, customer_served,
                  [best_improvement |-> improvement, best_facility |-> i])
         ELSE f_greedy_scan(i + 1, facility_open, customer_served, best)
    ELSE best

\* the "while (1)" loop of greedy_heuristic: [facility_open, customer_served]
RECURSIVE f_greedy_loop(_, _)
f_greedy_loop(facility_open, customer_served) ==
    LET best == f_greedy_scan(0, facility_open, customer_served,
                    [best_improvement |-> 0, best_facility |-> -1])
    IN IF best.best_facility = -1 \/ best.best_improvement <= 0
       THEN [facility_open |-> facility_open, customer_served |-> customer_served]
       ELSE Only({f_greedy_loop(open, [j \in 1..f_num_customers |-> 1]) :
                  open \in {[facility_open EXCEPT ![best.best_facility + 1] = 1]}})

\* the first facility with the cheapest facility cost + service cost for j
f_cheapest_facility(j) ==
    IF f_num_facilities = 0 THEN -1
    ELSE LET m == SetMin({f_fc(i) + f_sc(i, j) : i \in 0..(f_num_facilities - 1)})
         IN SetMin({i \in 0..(f_num_facilities - 1) : f_fc(i) + f_sc(i, j) = m})

\* "Ensure all customers are served"
RECURSIVE f_greedy_ensure(_, _, _)
f_greedy_ensure(j, facility_open, customer_served) ==
    IF j < f_num_customers
    THEN IF customer_served[j + 1] = 0 /\ f_cheapest_facility(j) # -1
         THEN f_greedy_ensure(j + 1,
                  [facility_open EXCEPT ![f_cheapest_facility(j) + 1] = 1],
                  customer_served)
         ELSE f_greedy_ensure(j + 1, facility_open, customer_served)
    ELSE facility_open

\* variant: the seed reports its fixed cost as its total cost
f_greedy_heuristic_understated ==
    LET g == f_greedy_loop(Zeros(f_num_facilities), Zeros(f_num_customers))
        open == f_greedy_ensure(0, g.facility_open, g.customer_served)
        sol == f_construct_solution([level |-> f_num_facilities, facility_open |-> open,
                                     fixed_cost |-> f_fixed_sum(open, 0)])
    IN IF sol.total_cost = DBL_MAX THEN sol
       ELSE [sol EXCEPT !.total_cost = sol.fixed_cost]

\* greedy_heuristic; its running total_cost is never used for the result
f_greedy_heuristic ==
    Only({Only({f_construct_solution([level |-> f_num_facilities, facility_open |-> open,
                                      fixed_cost |-> f_fixed_sum(open, 0)]) :
                open \in {f_greedy_ensure(0, g.facility_open, g.customer_served)}}) :
          g \in {f_greedy_loop(Zeros(f_num_facilities), Zeros(f_num_customers))}})

f_root ==
    [level |-> 0, facility_open |-> Zeros(f_num_facilities), fixed_cost |-> 0,
     service_cost |-> 0, total_cost |-> 0, bound |-> d_of_int(0)]

\* solve_facility_location up to the first loop test
f_Start ==
    /\ f_pc = "start"
    /\ \E greedy_solution \in {f_greedy_heuristic} :
       IF greedy_solution.total_cost # DBL_MAX
       THEN /\ f_best_solution' = greedy_solution
            /\ f_best_cost' = greedy_solution.total_cost
       ELSE /\ f_best_cost' = DBL_MAX
            /\ UNCHANGED f_best_solution
    /\ f_nodes_explored' = 0
    /\ f_nodes_pruned' = 0
    /\ \E root \in {[f_root EXCEPT !.bound = f_calculate_bound(f_root)]} :
          /\ f_pq' = f_pq_push(<<>>, root)
          /\ f_built' = {root}
    /\ f_pc' = "loop"
    /\ UNCHANGED <<f_facility_costs, f_service_costs, f_num_customers, f_result>>

\* "bound >= best_cost"; every bound is below DBL_MAX
f_pruned(node) ==
    f_best_cost # DBL_MAX /\ d_ge(node.bound, d_of_int(f_best_cost))

\* one loop iteration ending in the pruning "continue"
f_Prune ==
    /\ f_pc = "loop" /\ Len(f_pq) > 0
    /\ f_pruned(f_pq_top(f_pq))
    /\ f_pq' = f_pq_pop(f_pq)
    /\ f_nodes_explored' = f_nodes_explored + 1
    /\ f_nodes_pruned' = f_nodes_pruned + 1
    /\ f_built' = {}
    /\ UNCHANGED <<f_facility_costs, f_service_costs, f_num_customers,
                   f_best_solution, f_best_cost, f_pc, f_result>>

\* one loop iteration on a node with every facility decided
f_Complete ==
    /\ f_pc = "loop" /\ Len(f_pq) > 0
    /\ \E current \in {f_pq_top(f_pq)} :
       \E solution \in {f_construct_solution(current)} :
          /\ ~f_pruned(current)
          /\ current.level = f_num_facilities
          /\ IF solution.total_cost # DBL_MAX /\ solution.total_cost < f_best_cost
             THEN /\ f_best_solution' = solution
                  /\ f_best_cost' = solution.total_cost
             ELSE UNCHANGED <<f_best_solution, f_best_cost>>
    /\ f_pq' = f_pq_pop(f_pq)
    /\ f_nodes_explored' = f_nodes_explored + 1
    /\ f_built' = {}
    /\ UNCHANGED <<f_facility_costs, f_service_costs, f_num_customers,
                   f_nodes_pruned, f_pc, f_result>>

f_open_node(current) ==
    LET c == [current EXCEPT
                 !.facility_open[current.level + 1] = 1,
                 !.level = current.level + 1,
                 !.fixed_cost = current.fixed_cost + f_fc(current.level)]
        d == [c EXCEPT !.total_cost = f_add(c.fixed_cost, f_calculate_service_cost(c))]
    IN [d EXCEPT !.bound = f_calculate_bound(d)]

f_close_node(current) ==
    LET c == [current EXCEPT !.level = current.level + 1]
        d == [c EXCEPT !.total_cost = f_add(c.fixed_cost, f_calculate_service_cost(c))]
    IN [d EXCEPT !.bound = f_calculate_bound(d)]

\* one loop iteration that branches on facility current.level
f_Branch ==
    /\ f_pc = "loop" /\ Len(f_pq) > 0
    /\ \E current \in {f_pq_top(f_pq)} :
       /\ ~f_pruned(current)
       /\ current.level # f_num_facilities
       /\ \E open_node \in {f_open_node(current)}, close_node \in {f_close_node(current)} :
          LET pq0 == f_pq_pop(f_pq)
              pq1 == IF ~f_pruned(open_node) THEN f_pq_push(pq0, open_node) ELSE pq0
              pq2 == IF ~f_pruned(close_node) THEN f_pq_push(pq1, close_node) ELSE pq1
          IN /\ f_pq' = pq2
             /\ f_nodes_pruned' = f_nodes_pruned
                    + (IF f_pruned(open_node) THEN 1 ELSE 0)
                    + (IF f_pruned(close_node) THEN 1 ELSE 0)
             /\ f_built' = {open_node, close_node}
    /\ f_nodes_explored' = f_nodes_explored + 1
    /\ UNCHANGED <<f_facility_costs, f_service_costs, f_num_customers,
                   f_best_solution, f_best_cost, f_pc, f_result>>

\* the loop test fails: the LocationResult is filled in and returned
f_Finish ==
    /\ f_pc = "loop" /\ Len(f_pq) = 0
    /\ f_result' = [best_solution |-> f_best_solution,
                    nodes_explored |-> f_nodes_explored,
                    nodes_pruned |-> f_nodes_pruned]
    /\ f_pc' = "done"
    /\ f_built' = {}
    /\ UNCHANGED <<f_facility_costs, f_service_costs, f_num_customers,
                   f_best_solution, f_best_cost, f_nodes_explored,
                   f_nodes_pruned, f_pq>>

\* the zero-initialised global best_solution
f_zero_solution(nf, nc) ==
    [facility_open |-> Zeros(nf), customer_assignment |-> Zeros(nc),
     fixed_cost |-> 0, service_cost |-> 0, total_cost |-> 0]

f_Init ==
    /\ f_num_customers \in 1..MaxCustomers
    /\ \E nf \in 0..MaxFacilities :
          /\ nf * f_num_customers <= MaxCells
          /\ f_facility_costs \in [1..nf -> 0..MaxFacilityCost]
          /\ f_service_costs \in [1..nf -> [1..f_num_customers -> 0..MaxServiceCost]]
          /\ f_best_solution = f_zero_solution(nf, f_num_customers)
    /\ f_best_cost = 0
    /\ f_nodes_explored = 0
    /\ f_nodes_pruned = 0
    /\ f_pq = <<>>
    /\ f_pc = "start"
    /\ f_built = {}
    /\ f_result = <<>>

f_Idle ==
    /\ f_num_customers = 0
    /\ f_facility_costs = <<>>
    /\ f_service_costs = <<>>
    /\ f_best_solution = <<>>
    /\ f_best_cost = 0
    /\ f_nodes_explored = 0
    /\ f_nodes_pruned = 0
    /\ f_pq = <<>>
    /\ f_pc = "off"
    /\ f_built = {}
    /\ f_result = <<>>

----------------------------------------------------------------------------
\* NQueensOptimized.c: the priority queue

RECURSIVE n_bubble_up(_, _)
n_bubble_up(nodes, i) ==
    IF i > 0
    THEN LET parent == (i - 1) \div 2 IN
         IF nodes[i + 1].bound >= nodes[parent + 1].bound
         THEN nodes
         ELSE n_bubble_up(Swap(nodes, i, parent), parent)
    ELSE nodes

n_pq_push(pq, node) == n_bubble_up(Append(pq, node), Len(pq))

RECURSIVE n_bubble_down(_, _)
n_bubble_down(nodes, i) ==
    IF 2 * i + 1 < Len(nodes)
    THEN LET left == 2 * i + 1
             right == 2 * i + 2
             smallest == IF right < Len(nodes)
                            /\ nodes[right + 1].bound < nodes[left + 1].bound
                         THEN right ELSE left
         IN IF nodes[i + 1].bound <= nodes[smallest + 1].bound
            THEN nodes
            ELSE n_bubble_down(Swap(nodes, i, smallest), smallest)
    ELSE nodes

n_pq_top(pq) == pq[1]
n_pq_pop(pq) ==
    IF Len(pq) = 1 THEN <<>>
    ELSE n_bubble_down([SubSeq(pq, 1, Len(pq) - 1) EXCEPT ![1] = pq[Len(pq)]], 0)

\* A QueensNode.  placement holds the rows 0 .. level - 1: the array entries
\* from level on are never assigned before they are overwritten and are
\* never read.  col_used has n entries, diag1_used and diag2_used 2n - 1.
n_can_place(node, row, col) ==
    /\ node.col_used[col + 1] = 0
    /\ node.diag1_used[row - col + n_n - 1 + 1] = 0
    /\ node.diag2_used[row + col + 1] = 0

\* variant: place_queen without "node->diag2_used[row + col] = 1"
n_place_queen_no_diag2(node, row, col) ==
    [node EXCEPT
        !.placement = SubSeq(node.placement, 1, row) \o <<col>>,
        !.col_used[col + 1] = 1,
        !.diag1_used[row - col + n_n - 1 + 1] = 1]

n_place_queen(node, row, col) ==
    [node EXCEPT
        !.placement = SubSeq(node.placement, 1, row) \o <<col>>,
        !.col_used[col + 1] = 1,
        !.diag1_used[row - col + n_n - 1 + 1] = 1,
        !.diag2_used[row + col + 1] = 1]

\* the innermost loop of calculate_bound: conflicts of (row, col) with the
\* queens placed in the rows before level
n_cell_conflicts(node, row, col) ==
    Cardinality({prev_row \in 0..(node.level - 1) :
        LET prev_col == node.placement[prev_row + 1]
        IN prev_col = col \/ Abs(prev_row - row) = Abs(prev_col - col)})

\* variant: the loop over col without the test that the cell is available
RECURSIVE n_row_min_any_cell(_, _, _, _)
n_row_min_any_cell(node, row, col, min_conflicts) ==
    IF col < n_n
    THEN IF n_cell_conflicts(node, row, col) < min_conflicts
         THEN n_row_min_any_cell(node, row, col + 1, n_cell_conflicts(node, row, col))
         ELSE n_row_min_any_cell(node, row, col + 1, min_conflicts)
    ELSE min_conflicts

\* the loop over col of calculate_bound, from col on
RECURSIVE n_row_min(_, _, _, _)
n_row_min(node, row, col, min_conflicts) ==
    IF col < n_n
    THEN IF /\ node.col_used[col + 1] = 0
            /\ node.diag1_used[row - col + n_n - 1 + 1] = 0
            /\ node.diag2_used[row + col + 1] = 0
            /\ n_cell_conflicts(node, row, col) < min_conflicts
         THEN n_row_min(node, row, col + 1, n_cell_conflicts(node, row, col))
         ELSE n_row_min(node, row, col + 1, min_conflicts)
    ELSE min_conflicts

\* the loop over row of calculate_bound, from row on
RECURSIVE n_bound_loop(_, _, _)
n_bound_loop(node, row, bound) ==
    IF row < n_n
    THEN LET min_conflicts == n_row_min(node, row, 0, MAX_N)
         IN n_bound_loop(node, row + 1,
                IF min_conflicts # MAX_N THEN bound + min_conflicts ELSE bound)
    ELSE bound

n_calculate_bound(node) == n_bound_loop(node, node.level, node.conflicts)

n_count_potential_conflicts(node, row, col) ==
    Cardinality({cell \in ((row + 1)..(n_n - 1)) \X (0..(n_n - 1)) :
        /\ node.col_used[cell[2] + 1] = 0
        /\ (cell[2] = col \/ Abs(cell[1] - row) = Abs(cell[2] - col))})

\* the first loop of get_column_order, from col on
RECURSIVE n_valid_columns(_, _)
n_valid_columns(node, col) ==
    IF col < n_n
    THEN (IF n_can_place(node, node.level, col) THEN <<col>> ELSE <<>>)
         \o n_valid_columns(node, col + 1)
    ELSE <<>>

\* the inner loop of a bubble sort of get_column_order: j runs up to stop
RECURSIVE n_bubble_inner(_, _, _, _)
n_bubble_inner(columns, key, j, stop) ==
    IF j < stop
    THEN IF key[columns[j + 1]] > key[columns[j + 2]]
         THEN n_bubble_inner(Swap(columns, j, j + 1), key, j + 1, stop)
         ELSE n_bubble_inner(columns, key, j + 1, stop)
    ELSE columns

\* the outer loop of a bubble sort of get_column_order, from i on
RECURSIVE n_bubble_sort(_, _, _)
n_bubble_sort(columns, key, i) ==
    IF i < Len(columns) - 1
    THEN n_bubble_sort(n_bubble_inner(columns, key, 0, Len(columns) - i - 1),
                       key, i + 1)
    ELSE columns

\* columns[0 .. *count - 1] as get_column_order leaves them
n_get_column_order(node) ==
    LET columns == n_valid_columns(node, 0) IN
    CASE n_optimization_mode = "center" ->
           n_bubble_sort(columns,
               [col \in 0..(n_n - 1) |-> Abs(col - n_n \div 2)], 0)
      [] n_optimization_mode = "conflicts" ->
           n_bubble_sort(columns,
               [col \in 0..(n_n - 1) |->
                   n_count_potential_conflicts(node, node.level, col)], 0)
      [] n_optimization_mode = "symmetry" /\ node.level = 0 ->
           SubSeq(columns, 1, (n_n + 1) \div 2)
      [] OTHER -> columns

\* the loop of the "center" score.  abs is the int function of <stdlib.h>:
\* p - n / 2.0 is converted to int, towards zero, before its sign is dropped
RECURSIVE n_center_score(_, _, _)
n_center_score(placement, i, score) ==
    IF i < n_n
    THEN n_center_score(placement, i + 1,
             d_add(score,
                   d_div(1, 1 + Abs(2 * placement[i + 1] - n_n) \div 2)))
    ELSE score

\* a score is a double: -1.0, or a value >= 0 held as by d_of_int
n_calculate_solution_score(solution) ==
    CASE n_optimization_mode = "center" ->
           n_center_score(solution.placement, 0, d_of_int(0))
      [] n_optimization_mode = "symmetry" ->
           IF \A i \in 0..(n_n - 1) :
                 solution.placement[i + 1]
                     = n_n - 1 - solution.placement[n_n - 1 - i + 1]
           THEN d_of_int(10) ELSE d_of_int(1)
      [] OTHER -> d_div(100, 1 + solution.conflicts)

n_root ==
    [level |-> 0, placement |-> <<>>, conflicts |-> 0,
     col_used |-> Zeros(n_n),
     diag1_used |-> Zeros(2 * n_n - 1),
     diag2_used |-> Zeros(2 * n_n - 1),
     bound |-> 0]

\* solve_optimized up to the first test of the loop condition.  The
\* conflicts and placement of best_solution are not initialised; they are
\* read only after score >= 0, that is after an assignment of the struct
n_Start ==
    /\ n_pc = "start"
    /\ n_result' = [solutions |-> <<>>, solution_count |-> 0,
                    best_solution |-> [placement |-> <<>>, conflicts |-> 0,
                                       score |-> d_of_int(-1)],
                    nodes_explored |-> 0, nodes_pruned |-> 0]
    /\ LET root == [n_root EXCEPT !.bound = n_calculate_bound(n_root)]
       IN /\ n_pq' = n_pq_push(<<>>, root)
          /\ n_built' = {root}
    /\ n_current' = <<>>
    /\ n_pc' = "loop"
    /\ UNCHANGED <<n_n, n_max_solutions, n_optimization_mode>>

\* the pruning test on a popped node
n_pruned(node) ==
    /\ d_ge(n_result.best_solution.score, d_of_int(0))
    /\ node.bound > n_result.best_solution.conflicts

\* variant: a child is pushed only with a bound below the incumbent's conflicts
n_promising_strict(child) ==
    \/ d_lt(n_result.best_solution.score, d_of_int(0))
    \/ child.bound < n_result.best_solution.conflicts

\* the test under which a child is pushed
n_promising(child) ==
    \/ d_lt(n_result.best_solution.score, d_of_int(0))
    \/ child.bound <= n_result.best_solution.conflicts + 1

n_child(current, col) ==
    LET c == [n_place_queen(current, current.level, col)
                 EXCEPT !.level = current.level + 1]
    IN [c EXCEPT !.bound = n_calculate_bound(c)]

\* the branching loop from columns[i] on; acc = [pq, pruned, built]
RECURSIVE n_branch(_, _, _, _)
n_branch(current, columns, i, acc) ==
    IF i < Len(columns)
    THEN IF n_can_place(current, current.level, columns[i + 1])
         THEN LET child == n_child(current, columns[i + 1])
              IN IF n_promising(child)
                 THEN n_branch(current, columns, i + 1,
                          [acc EXCEPT !.pq = n_pq_push(acc.pq, child),
                                      !.built = acc.built \cup {child}])
                 ELSE n_branch(current, columns, i + 1,
                          [acc EXCEPT !.pruned = acc.pruned + 1,
                                      !.built = acc.built \cup {child}])
         ELSE n_branch(current, columns, i + 1, acc)
    ELSE acc

\* the complete-solution block: result after recording current
n_record_solution(current) ==
    LET s0 == [placement |-> current.placement, conflicts |-> current.conflicts,
               score |-> d_of_int(0)]
        solution == [s0 EXCEPT !.score = n_calculate_solution_score(s0)]
        best == n_result.best_solution
    IN [n_result EXCEPT
           !.solutions = Append(n_result.solutions, solution),
           !.solution_count = n_result.solution_count + 1,
           !.best_solution =
               IF \/ d_lt(best.score, d_of_int(0))
                  \/ solution.conflicts < best.conflicts
                  \/ /\ solution.conflicts = best.conflicts
                     /\ d_lt(best.score, solution.score)
               THEN solution ELSE best]

\* the loop condition of solve_optimized
n_loop_condition ==
    Len(n_pq) > 0 /\ n_result.solution_count < n_max_solutions

\* one iteration of the loop of solve_optimized: pop, then the pruning
\* "continue", the complete-solution block or the branching loop
n_Iterate ==
    /\ n_pc = "loop" /\ n_loop_condition
    /\ LET current == n_pq_top(n_pq)
           popped == n_pq_pop(n_pq)
           explored == [n_result EXCEPT !.nodes_explored = n_result.nodes_explored + 1]
       IN /\ n_current' = <<current>>
          /\ IF n_pruned(current)
             THEN /\ n_result' = [explored EXCEPT !.nodes_pruned = explored.nodes_pruned + 1]
                  /\ n_pq' = popped
                  /\ n_built' = {}
             ELSE IF current.level = n_n
             THEN /\ n_result' = [n_record_solution(current) EXCEPT
                                     !.nodes_explored = explored.nodes_explored]
                  /\ n_pq' = popped
                  /\ n_built' = {}
             ELSE LET r == n_branch(current, n_get_column_order(current), 0,
                               [pq |-> popped, pruned |-> 0, built |-> {}])
                  IN /\ n_result' = [explored EXCEPT
                                        !.nodes_pruned = explored.nodes_pruned + r.pruned]
                     /\ n_pq' = r.pq
                     /\ n_built' = r.built
    /\ UNCHANGED <<n_n, n_max_solutions, n_optimization_mode, n_pc>>

\* the loop condition fails: solve_optimized returns result
n_Finish ==
    /\ n_pc = "loop" /\ ~n_loop_condition
    /\ n_pc' = "done"
    /\ n_current' = <<>>
    /\ n_built' = {}
    /\ UNCHANGED <<n_n, n_max_solutions, n_optimization_mode, n_result, n_pq>>

n_Modes == {"conflicts", "center", "symmetry"}

\* the globals as main sets them before a call of solve_optimized
n_Init ==
    /\ n_n \in 1..MaxBoard
    /\ n_max_solutions \in 1..MaxSolutions
    /\ n_optimization_mode \in n_Modes
    /\ n_result = [solutions |-> <<>>, solution_count |-> 0,
                   best_solution |-> [placement |-> <<>>, conflicts |-> 0,
                                      score |-> d_of_int(-1)],
                   nodes_explored |-> 0, nodes_pruned |-> 0]
    /\ n_pq = <<>>
    /\ n_pc = "start"
    /\ n_current = <<>>
    /\ n_built = {}

n_Idle ==
    /\ n_n = 0
    /\ n_max_solutions = 0
    /\ n_optimization_mode = "none"
    /\ n_result = <<>>
    /\ n_pq = <<>>
    /\ n_pc = "off"
    /\ n_current = <<>>
    /\ n_built = {}

----------------------------------------------------------------------------
\* The five PriorityQueue implementations under arbitrary calls.  h_file
\* names the file whose pq_push / pq_pop is called; a node is its bound and
\* an id, the size of the queue when the node was pushed.

h_Files == {"Knapsack", "JobAssignment", "TravelingSalesman", "FacilityLocation",
            "NQueens"}

\* the bound b as the file's bound type holds it
h_bound(file, b) ==
    CASE file = "Knapsack" -> Frac(b, 1)
      [] file = "FacilityLocation" -> d_of_int(b)
      [] OTHER -> b

h_push(file, pq, node) ==
    CASE file = "Knapsack" -> k_pq_push(pq, node)
      [] file = "JobAssignment" -> j_pq_push(pq, node)
      [] file = "TravelingSalesman" -> t_pq_push(pq, node)
      [] file = "FacilityLocation" -> f_pq_push(pq, node)
      [] OTHER -> n_pq_push(pq, node)

h_top(file, pq) ==
    CASE file = "Knapsack" -> k_pq_top(pq)
      [] file = "JobAssignment" -> j_pq_top(pq)
      [] file = "TravelingSalesman" -> t_pq_top(pq)
      [] file = "FacilityLocation" -> f_pq_top(pq)
      [] OTHER -> n_pq_top(pq)

h_pop(file, pq) ==
    CASE file = "Knapsack" -> k_pq_pop(pq)
      [] file = "JobAssignment" -> j_pq_pop(pq)
      [] file = "TravelingSalesman" -> t_pq_pop(pq)
      [] file = "FacilityLocation" -> f_pq_pop(pq)
      [] OTHER -> n_pq_pop(pq)

\* pq_push(&pq, node) on a queue with room left
h_Push ==
    /\ h_file \in h_Files
    /\ Len(h_pq) < MaxQueue
    /\ \E b \in 0..MaxBound :
          h_pq' = h_push(h_file, h_pq, [bound |-> h_bound(h_file, b), id |-> Len(h_pq)])
    /\ h_before' = h_pq
    /\ h_popped' = <<>>
    /\ UNCHANGED h_file

\* pq_pop(&pq) on a queue that is not empty
h_Pop ==
    /\ h_file \in h_Files
    /\ Len(h_pq) > 0
    /\ h_popped' = <<h_top(h_file, h_pq)>>
    /\ h_pq' = h_pop(h_file, h_pq)
    /\ h_before' = h_pq
    /\ UNCHANGED h_file

\* pq_init
h_Init ==
    /\ h_file \in h_Files
    /\ h_pq = <<>>
    /\ h_before = <<>>
    /\ h_popped = <<>>

h_Idle ==
    /\ h_file = "none"
    /\ h_pq = <<>>
    /\ h_before = <<>>
    /\ h_popped = <<>>

----------------------------------------------------------------------------
\* Drivers whose pq_pop may return any of the queued nodes that share the
\* best bound, run twice on the same instance.  Two nodes of equal bound may
\* change places in a heap without breaking it, so the node pq_pop returns
\* next is any node whose bound equals that of the first.

r_Idle == r_first = <<>>

k_TieBreak ==
    /\ k_pc = "loop"
    /\ \E i \in 1..(Len(k_pq) - 1) :
          /\ FracLE(k_pq[1].bound, k_pq[i + 1].bound)
          /\ k_pq[i + 1] # k_pq[1]
          /\ k_pq' = Swap(k_pq, 0, i)
    /\ UNCHANGED <<k_items, k_capacity, k_max_profit, k_best_solution,
                   k_nodes_explored, k_nodes_pruned, k_pc, k_built>>

t_TieBreak ==
    /\ t_pc = "loop"
    /\ \E i \in 1..(Len(t_pq) - 1) :
          /\ t_pq[i + 1].bound = t_pq[1].bound
          /\ t_pq[i + 1] # t_pq[1]
          /\ t_pq' = Swap(t_pq, 0, i)
    /\ UNCHANGED <<t_graph, t_best_cost, t_best_path, t_nodes_explored,
                   t_nodes_pruned, t_pc, t_built>>

j_TieBreak ==
    /\ j_pc = "loop"
    /\ \E i \in 1..(Len(j_pq) - 1) :
          /\ j_pq[i + 1].bound = j_pq[1].bound
          /\ j_pq[i + 1] # j_pq[1]
          /\ j_pq' = Swap(j_pq, 0, i)
    /\ UNCHANGED <<j_cost_matrix, j_min_cost, j_best_assignment, j_nodes_explored,
                   j_nodes_pruned, j_pc, j_built>>

f_TieBreak ==
    /\ f_pc = "loop"
    /\ \E i \in 1..(Len(f_pq) - 1) :
          /\ f_pq[i + 1].bound = f_pq[1].bound
          /\ f_pq[i + 1] # f_pq[1]
          /\ f_pq' = Swap(f_pq, 0, i)
    /\ UNCHANGED <<f_facility_costs, f_service_costs, f_num_customers,
                   f_best_solution, f_best_cost, f_nodes_explored,
                   f_nodes_pruned, f_pc, f_built, f_result>>

\* the driver is called again on the instance it has just solved
k_Again ==
    /\ k_pc = "done" /\ r_first = <<>>
    /\ r_first' = <<k_max_profit, k_items>>
    /\ k_pc' = "start"
    /\ UNCHANGED <<k_items, k_capacity, k_max_profit, k_best_solution,
                   k_nodes_explored, k_nodes_pruned, k_pq, k_built>>

t_Again ==
    /\ t_pc = "done" /\ r_first = <<>>
    /\ r_first' = <<t_best_cost>>
    /\ t_pc' = "start"
    /\ UNCHANGED <<t_graph, t_best_cost, t_best_path, t_nodes_explored,
                   t_nodes_pruned, t_pq, t_built>>

j_Again ==
    /\ j_pc = "done" /\ r_first = <<>>
    /\ r_first' = <<j_min_cost>>
    /\ j_pc' = "start"
    /\ UNCHANGED <<j_cost_matrix, j_min_cost, j_best_assignment, j_nodes_explored,
                   j_nodes_pruned, j_pq, j_built>>

f_Again ==
    /\ f_pc = "done" /\ r_first = <<>>
    /\ r_first' = <<f_best_cost>>
    /\ f_pc' = "start"
    /\ UNCHANGED <<f_facility_costs, f_service_costs, f_num_customers,
                   f_best_solution, f_best_cost, f_nodes_explored,
                   f_nodes_pruned, f_pq, f_built, f_result>>

----------------------------------------------------------------------------
\* Specifications

\* solve_knapsack on the instance family
Init == k_Init /\ b_Idle /\ t_Idle /\ j_Idle /\ f_Idle /\ n_Idle /\ h_Idle /\ r_Idle
Next ==
    \/ k_Start /\ k_alone
    \/ k_Prune /\ k_alone
    \/ k_Leaf /\ k_alone
    \/ k_Branch /\ k_alone
    \/ k_Finish /\ k_alone
Spec == Init /\ [][Next]_vars

\* scenario A: Branch_Bound.c main and solve_knapsack on the same items
k_InitA ==
    /\ k_items = << k_Item(1, 15, 0), k_Item(3, 20, 1), k_Item(4, 30, 2), k_Item(5, 40, 3) >>
    /\ k_capacity = 7
    /\ k_max_profit = 0
    /\ k_best_solution = <<>>
    /\ k_nodes_explored = 0
    /\ k_nodes_pruned = 0
    /\ k_pq = <<>>
    /\ k_pc = "start"
    /\ k_built = {}

InitA == k_InitA /\ b_Init /\ t_Idle /\ j_Idle /\ f_Idle /\ n_Idle /\ h_Idle /\ r_Idle
NextA ==
    \/ k_Start /\ k_alone
    \/ k_Prune /\ k_alone
    \/ k_Leaf /\ k_alone
    \/ k_Branch /\ k_alone
    \/ k_Finish /\ k_alone
    \/ b_Start /\ b_alone
    \/ b_Iterate /\ b_alone
    \/ b_Finish /\ b_alone
SpecA == InitA /\ [][NextA]_vars

\* solve_tsp on the instance family and on scenario B
InitT == t_Init /\ k_Idle /\ b_Idle /\ j_Idle /\ f_Idle /\ n_Idle /\ h_Idle /\ r_Idle
NextT ==
    \/ t_Start /\ t_alone
    \/ t_Prune /\ t_alone
    \/ t_Tour /\ t_alone
    \/ t_Branch /\ t_alone
    \/ t_Finish /\ t_alone
SpecT == InitT /\ [][NextT]_vars

\* solve_assignment on the instance family and on scenario C
InitJ == j_Init /\ k_Idle /\ b_Idle /\ t_Idle /\ f_Idle /\ n_Idle /\ h_Idle /\ r_Idle
NextJ ==
    \/ j_Start /\ j_alone
    \/ j_Prune /\ j_alone
    \/ j_Complete /\ j_alone
    \/ j_Branch /\ j_alone
    \/ j_Finish /\ j_alone
SpecJ == InitJ /\ [][NextJ]_vars

\* solve_facility_location on the instance family
InitF == f_Init /\ k_Idle /\ b_Idle /\ t_Idle /\ j_Idle /\ n_Idle /\ h_Idle /\ r_Idle
NextF ==
    \/ f_Start /\ f_alone
    \/ f_Prune /\ f_alone
    \/ f_Complete /\ f_alone
    \/ f_Branch /\ f_alone
    \/ f_Finish /\ f_alone
SpecF == InitF /\ [][NextF]_vars

\* one run of one of the four drivers on its instance family
InitD ==
    \/ k_Init /\ b_Idle /\ t_Idle /\ j_Idle /\ f_Idle /\ n_Idle /\ h_Idle /\ r_Idle
    \/ t_Init /\ k_Idle /\ b_Idle /\ j_Idle /\ f_Idle /\ n_Idle /\ h_Idle /\ r_Idle
    \/ j_Init /\ k_Idle /\ b_Idle /\ t_Idle /\ f_Idle /\ n_Idle /\ h_Idle /\ r_Idle
    \/ f_Init /\ k_Idle /\ b_Idle /\ t_Idle /\ j_Idle /\ n_Idle /\ h_Idle /\ r_Idle
NextD ==
    \/ k_Start /\ k_alone
    \/ k_Prune /\ k_alone
    \/ k_Leaf /\ k_alone
    \/ k_Branch /\ k_alone
    \/ k_Finish /\ k_alone
    \/ t_Start /\ t_alone
    \/ t_Prune /\ t_alone
    \/ t_Tour /\ t_alone
    \/ t_Branch /\ t_alone
    \/ t_Finish /\ t_alone
    \/ j_Start /\ j_alone
    \/ j_Prune /\ j_alone
    \/ j_Complete /\ j_alone
    \/ j_Branch /\ j_alone
    \/ j_Finish /\ j_alone
    \/ f_Start /\ f_alone
    \/ f_Prune /\ f_alone
    \/ f_Complete /\ f_alone
    \/ f_Branch /\ f_alone
    \/ f_Finish /\ f_alone
SpecD == InitD /\ [][NextD]_vars

\* the four drivers, each loop iteration being taken as long as the program
\* is inside or in front of its loop: a sequential program does not stop
\* between two statements;
\* job-assignment and facility-location instances up to MaxLiveSize
InitL ==
    /\ InitD
    /\ j_n <= MaxLiveSize
    /\ f_num_facilities <= MaxLiveSize
    /\ f_num_customers <= MaxLiveSize
LiveD == InitL /\ [][NextD]_vars /\ WF_vars(NextD)

\* two runs of a driver on one instance, with arbitrary tie-breaks in pq_pop;
\* job-assignment and facility-location instances up to MaxTieSize
InitR ==
    /\ InitD
    /\ j_n <= MaxTieSize
    /\ f_num_facilities <= MaxTieSize
    /\ f_num_customers <= MaxTieSize
NextR ==
    \/ NextD
    \/ k_TieBreak /\ k_alone
    \/ t_TieBreak /\ t_alone
    \/ j_TieBreak /\ j_alone
    \/ f_TieBreak /\ f_alone
    \/ k_Again /\ UNCHANGED <<b_vars, t_vars, j_vars, f_vars, n_vars, h_vars>>
    \/ t_Again /\ UNCHANGED <<k_vars, b_vars, j_vars, f_vars, n_vars, h_vars>>
    \/ j_Again /\ UNCHANGED <<k_vars, b_vars, t_vars, f_vars, n_vars, h_vars>>
    \/ f_Again /\ UNCHANGED <<k_vars, b_vars, t_vars, j_vars, n_vars, h_vars>>
SpecR == InitR /\ [][NextR]_vars

\* solve_optimized on boards of up to MaxBoard rows in the three modes
InitN == n_Init /\ k_Idle /\ b_Idle /\ t_Idle /\ j_Idle /\ f_Idle /\ h_Idle /\ r_Idle
NextN ==
    \/ n_Start /\ n_alone
    \/ n_Iterate /\ n_alone
    \/ n_Finish /\ n_alone
SpecN == InitN /\ [][NextN]_vars

\* the five drivers, each on its instance family
InitV == InitD \/ InitN
NextV == NextD \/ NextN
SpecV == InitV /\ [][NextV]_vars

\* arbitrary pq_push / pq_pop calls on each file's queue
InitH == h_Init /\ k_Idle /\ b_Idle /\ t_Idle /\ j_Idle /\ f_Idle /\ n_Idle /\ r_Idle
NextH ==
    \/ h_Push /\ h_alone
    \/ h_Pop /\ h_alone
SpecH == InitH /\ [][NextH]_vars


----------------------------------------------------------------------------
\* Claims about KnapsackBranchBound.c

RECURSIVE SumField(_, _, _)
SumField(its, S, field) ==
    IF S = {} THEN 0
    ELSE LET i == CHOOSE x \in S : TRUE
         IN its[i][field] + SumField(its, S \ {i}, field)

\* C1: after solve_knapsack terminates, max_profit equals the value returned
\* by brute_force_knapsack on the same instance.
C1_KnapsackOptimal ==
    k_pc = "done" => k_max_profit = brute_force_knapsack

\* total values of the feasible completions of a node: its own profit plus
\* the value of a subset of items[level..n) that fits the remaining capacity
k_completions(node) ==
    {node.profit + SumField(k_items, S, "value") :
        S \in {T \in SUBSET ((node.level + 1)..k_n) :
                  node.weight + SumField(k_items, T, "weight") <= k_capacity}}

\* C8: the bound of every node solve_knapsack constructs is >= the value of
\* every feasible completion of that node.
C8_KnapsackBoundAdmissible ==
    \A node \in k_built :
        \A v \in k_completions(node) : FracGE(node.bound, Frac(v, 1))

----------------------------------------------------------------------------
\* Scenario A

\* the items solve_knapsack reports as selected, by their index field
k_selected == {k_items[i].index : i \in {x \in 1..Len(k_best_solution) : k_best_solution[x] = 1}}

\* C5: on items A(1,15) B(3,20) C(4,30) D(5,40) with capacity 7, both
\* Branch_Bound.c main and solve_knapsack end with maximum value 55 and
\* selected items exactly A and D (index 0 and 3).
C5_ScenarioA ==
    /\ b_pc = "done" => b_maxProfit = 55 /\ Range(b_bestItems) = {"A", "D"}
    /\ k_pc = "done" => k_max_profit = 55 /\ k_selected = {0, 3}

C5_Witness ==
    /\ b_pc = "done" /\ b_maxProfit = 55 /\ Len(b_bestItems) = 2
    /\ k_pc = "done" /\ k_max_profit = 55 /\ k_nodes_explored = 12

----------------------------------------------------------------------------
\* Claims about TravelingSalesman.c

\* C2: after solve_tsp terminates, best_cost equals the cost returned by
\* brute_force_tsp, the minimum over all tours that start and end at city 0.
C2_TspOptimal ==
    t_pc = "done" => t_best_cost = brute_force_tsp

\* the cities a node has not visited, in increasing order
t_unvisited(node) ==
    LET U == {c \in 0..(t_n - 1) : node.visited[c + 1] = 0}
        f[k \in 0..Cardinality(U)] ==
            IF k = 0 THEN <<>>
            ELSE Append(f[k - 1],
                        CHOOSE c \in U : Cardinality({d \in U : d < c}) = k - 1)
    IN f[Cardinality(U)]

\* total costs, return edge included, of the complete tours extending a node
t_completions(node) ==
    LET rest == t_unvisited(node) IN
    {node.cost + t_tour_cost([a \in 1..Len(rest) |-> rest[p[a]]], 0, t_last(node))
        : p \in Perms(Len(rest))}

\* C9: the bound of every node solve_tsp constructs is <= the total cost of
\* every complete tour that extends the node's path.
C9_TspBoundAdmissible ==
    \A node \in t_built : \A c \in t_completions(node) : node.bound <= c

\* C6: on scenario B solve_tsp ends with best_cost 80 and best_path a tour of
\* cost 80 that starts and ends at city 0.
C6_ScenarioB ==
    (t_pc = "done" /\ t_graph = t_ScenarioB) =>
        /\ t_best_cost = 80
        /\ Len(t_best_path) = 5
        /\ t_best_path[1] = 0 /\ t_best_path[5] = 0
        /\ {t_best_path[i] : i \in 2..4} = {1, 2, 3}
        /\ t_tour_cost(SubSeq(t_best_path, 2, 4), 0, 0) = 80

C6_Witness ==
    t_pc = "done" /\ t_graph = t_ScenarioB /\ t_best_cost = 80 /\ t_nodes_explored = 13

----------------------------------------------------------------------------
\* Claims about JobAssignment.c

\* C3: after solve_assignment terminates, min_cost equals the min_cost
\* returned by brute_force_assignment, the minimum over all permutations p of
\* the sum of cost_matrix[w][p(w)].
C3_AssignmentOptimal ==
    j_pc = "done" => j_min_cost = brute_force_assignment

\* a run of at least three workers that pruned nodes has ended
C3_Witness ==
    /\ j_pc = "done" /\ j_n >= 3 /\ j_nodes_pruned > 0
    /\ j_min_cost = brute_force_assignment /\ j_min_cost > 0

\* C7: on scenario C solve_assignment ends with min_cost 13 and
\* best_assignment [1, 0, 2, 3].
C7_ScenarioC ==
    (j_pc = "done" /\ j_cost_matrix = j_ScenarioC) =>
        j_min_cost = 13 /\ j_best_assignment = <<1, 0, 2, 3>>

C7_Witness ==
    /\ j_pc = "done" /\ j_cost_matrix = j_ScenarioC
    /\ j_min_cost = 13 /\ j_nodes_explored = 11 /\ j_nodes_pruned = 6

----------------------------------------------------------------------------
\* Claims about FacilityLocation.c

\* true total cost of opening exactly the facilities of S (S not empty)
f_cost_of(S) ==
    LET open == [i \in 1..f_num_facilities |-> IF (i - 1) \in S THEN 1 ELSE 0]
    IN f_fixed_sum(open, 0) + f_service_loop([facility_open |-> open], 0, 0)

f_optimum ==
    SetMin({f_cost_of(S) : S \in (SUBSET (0..(f_num_facilities - 1))) \ {{}}})

f_completions(node) ==
    {S \in (SUBSET (0..(f_num_facilities - 1))) \ {{}} :
        \A i \in 0..(node.level - 1) : (i \in S) <=> (node.facility_open[i + 1] = 1)}

\* C10: the bound of every node solve_facility_location constructs is <= the
\* true total cost of every feasible completion of the node.
C10_FacilityBoundAdmissible ==
    \A node \in f_built :
        \A S \in f_completions(node) : d_le(node.bound, d_of_int(f_cost_of(S)))

----------------------------------------------------------------------------
\* Claims about the priority queues

\* the bound x is at least as good as the bound y in the heap of the file
h_best(file, x, y) ==
    CASE file = "Knapsack" -> FracGE(x, y)
      [] file = "FacilityLocation" -> d_le(x, y)
      [] OTHER -> x <= y

\* C11: after any sequence of pq_push and pq_pop calls within capacity and
\* never on an empty queue, pq_pop returns a node of the queue whose bound is
\* the best of all bounds held at the call: the minimum in JobAssignment,
\* TravelingSalesman, FacilityLocation and NQueensOptimized, the maximum in
\* KnapsackBranchBound.
C11_PopReturnsBest ==
    h_popped # <<>> =>
        /\ h_popped[1] \in Range(h_before)
        /\ \A k \in 1..Len(h_before) :
              h_best(h_file, h_popped[1].bound, h_before[k].bound)

\* a pop from a queue of four nodes returned a node that was neither the
\* first nor the last one pushed, with a bound strictly better than another
C11_Witness ==
    /\ h_popped # <<>>
    /\ Len(h_before) >= 4
    /\ h_popped[1].id \notin {0, Len(h_before) - 1}
    /\ \E k \in 1..Len(h_before) : h_before[k].bound # h_popped[1].bound

----------------------------------------------------------------------------
\* Claims about pruning in solve_knapsack

\* the loop of solve_knapsack with both bound tests taken out: no popped node
\* is discarded and every constructed child is pushed
RECURSIVE k_unpruned_loop(_, _, _)
k_unpruned_loop(pq, max_profit, nodes_explored) ==
    IF Len(pq) = 0
    THEN [max_profit |-> max_profit, nodes_explored |-> nodes_explored]
    ELSE LET current == k_pq_top(pq)
             pq0 == k_pq_pop(pq)
         IN IF current.level = k_n
            THEN k_unpruned_loop(pq0,
                     IF current.profit > max_profit THEN current.profit ELSE max_profit,
                     nodes_explored + 1)
            ELSE LET fits == current.weight + k_items[current.level + 1].weight
                                 <= k_capacity
                     pq1 == IF fits THEN k_pq_push(pq0, k_include_node(current)) ELSE pq0
                     pq2 == k_pq_push(pq1, k_exclude_node(current))
                 IN k_unpruned_loop(pq2, max_profit, nodes_explored + 1)

k_unpruned == k_unpruned_loop(k_pq_push(<<>>, k_with_bound(k_root)), 0, 0)

\* C12: solve_knapsack with pruning disabled ends with the same max_profit as
\* solve_knapsack, and explores at least as many nodes.
C12_PruningSound ==
    k_pc = "done" =>
        /\ k_max_profit = k_unpruned.max_profit
        /\ k_nodes_explored <= k_unpruned.nodes_explored

----------------------------------------------------------------------------
\* Claims about the incumbent

\* C13: after initialisation every step of a driver that changes the
\* incumbent value makes it strictly better (max_profit larger; min_cost and
\* best_cost smaller), and the stored solution changes only together with
\* such an improvement: the incumbent never regresses.
C13_IncumbentMonotone ==
    [][ /\ k_pc = "loop" =>
            /\ k_max_profit' >= k_max_profit
            /\ k_best_solution' # k_best_solution => k_max_profit' > k_max_profit
        /\ t_pc = "loop" =>
            /\ t_best_cost' <= t_best_cost
            /\ t_best_path' # t_best_path => t_best_cost' < t_best_cost
        /\ j_pc = "loop" =>
            /\ j_min_cost' <= j_min_cost
            /\ j_best_assignment' # j_best_assignment => j_min_cost' < j_min_cost
        /\ f_pc = "loop" =>
            /\ f_best_cost' <= f_best_cost
            /\ f_best_solution' # f_best_solution => f_best_cost' < f_best_cost
      ]_vars

\* the facility-location search is under way and has replaced the greedy
\* seed by a cheaper solution
C13_Witness ==
    /\ f_pc = "loop" /\ Len(f_pq) > 0
    /\ f_best_cost < f_greedy_heuristic.total_cost

----------------------------------------------------------------------------
\* Claims about tie-breaks

\* C14: whichever of the queued nodes sharing the best bound pq_pop returns,
\* a driver ends with the same incumbent value on a given instance: a second
\* run on the instance (for solve_knapsack: with the items in the same sorted
\* order) ends with the value of the first.
C14_TieBreakIndependent ==
    r_first # <<>> =>
        /\ (k_pc = "done" /\ r_first[2] = k_items) => k_max_profit = r_first[1]
        /\ t_pc = "done" => t_best_cost = r_first[1]
        /\ j_pc = "done" => j_min_cost = r_first[1]
        /\ f_pc = "done" => f_best_cost = r_first[1]

----------------------------------------------------------------------------
\* Claims about the queue's storage

\* C15: in every reachable state of solve_knapsack the queue holds no more
\* nodes than its nodes array has elements, so that pq_push never writes past
\* the end of the array.  pq_push has no test of size against the array
\* length and no instance is turned away before the search, so the queue
\* grows with the frontier of the instance.
C15_QueueWithinCapacity == Len(k_pq) <= MaxNodes

----------------------------------------------------------------------------
\* Claims about the incumbent's initial and final value

\* C16: a run of solve_facility_location that ends without a feasible
\* solution (best_cost is still DBL_MAX) returns a LocationResult whose
\* best_solution.total_cost is DBL_MAX.
C16_InfeasibleReported ==
    (f_pc = "done" /\ f_best_cost = DBL_MAX) =>
        f_result.best_solution.total_cost = DBL_MAX

\* C17: when solve_assignment is about to pop its first node, best_assignment
\* is a complete assignment (a permutation of the workers) and min_cost is its
\* cost: the incumbent is seeded before the search.
C17_AssignmentSeeded ==
    (j_pc = "loop" /\ j_nodes_explored = 0) =>
        /\ \A i \in 1..j_n : j_best_assignment[i] \in 0..(j_n - 1)
        /\ \A i, k \in 1..j_n : i # k => j_best_assignment[i] # j_best_assignment[k]
        /\ j_min_cost = j_assignment_cost(j_best_assignment, 0)

----------------------------------------------------------------------------
\* Claims about the greedy seed

\* C18: when solve_facility_location has installed its seed and is about to
\* pop the first node of an instance with a facility and a customer, the
\* incumbent has an open facility, assigns every customer to an open
\* facility, and its total_cost (also held in best_cost) is the fixed costs
\* of the open facilities plus the service costs of the assignments.  On an
\* instance without facilities greedy_heuristic returns total_cost DBL_MAX
\* and nothing is installed.
C18_GreedySeedFeasible ==
    (f_pc = "loop" /\ f_nodes_explored = 0) =>
        IF f_num_facilities >= 1
        THEN LET sol == f_best_solution
                 F == 1..f_num_facilities
                 C == 1..f_num_customers
             IN /\ \E i \in F : sol.facility_open[i] = 1
                /\ \A j \in C :
                      /\ sol.customer_assignment[j] \in 0..(f_num_facilities - 1)
                      /\ sol.facility_open[sol.customer_assignment[j] + 1] = 1
                /\ sol.total_cost =
                      SumField([i \in F |-> [c |-> IF sol.facility_open[i] = 1
                                                  THEN f_facility_costs[i] ELSE 0]], F, "c")
                      + SumField([j \in C |-> [c |->
                            f_service_costs[sol.customer_assignment[j] + 1][j]]], C, "c")
                /\ f_best_cost = sol.total_cost
        ELSE /\ f_greedy_heuristic.total_cost = DBL_MAX
             /\ f_best_cost = DBL_MAX
             /\ f_best_solution = f_zero_solution(0, f_num_customers)

\* the seed of an instance opens two facilities and uses both
C18_Witness ==
    /\ f_pc = "loop" /\ f_nodes_explored = 0
    /\ \E i, k \in 1..f_num_facilities :
          /\ i # k
          /\ f_best_solution.facility_open[i] = 1
          /\ f_best_solution.facility_open[k] = 1
          /\ \E j, l \in 1..f_num_customers :
                /\ f_best_solution.customer_assignment[j] = i - 1
                /\ f_best_solution.customer_assignment[l] = k - 1

----------------------------------------------------------------------------
\* Claims about termination

\* C19: every run of solve_knapsack, solve_tsp, solve_assignment and
\* solve_facility_location eventually finds its queue empty and leaves its
\* loop.
C19_Termination ==
    <>(/\ k_pc \in {"off", "done"} /\ Len(k_pq) = 0
       /\ t_pc \in {"off", "done"} /\ Len(t_pq) = 0
       /\ j_pc \in {"off", "done"} /\ Len(j_pq) = 0
       /\ f_pc \in {"off", "done"} /\ Len(f_pq) = 0)

\* a run has expanded nodes down to a terminal one and has left its loop
C19_Witness ==
    \/ k_pc = "done" /\ k_nodes_explored > Len(k_items) /\ Len(k_items) >= 2
    \/ t_pc = "done" /\ t_nodes_explored > t_n /\ t_n >= 3
    \/ j_pc = "done" /\ j_nodes_explored > j_n /\ j_n >= 2
    \/ f_pc = "done" /\ f_nodes_explored > f_num_facilities /\ f_num_facilities >= 2

----------------------------------------------------------------------------
\* Claims about terminal nodes

\* the objective value of a terminal node of solve_tsp: its cost, with or
\* without the edge from the last city of its path back to city 0
C20_tsp_objective(node, with_return) ==
    IF with_return THEN node.cost + t_graph[node.path[t_n] + 1][1] ELSE node.cost

\* the incumbents after a step that pops a terminal node which is not pruned
C20_TerminalStep(with_return) ==
    /\ (k_pc = "loop" /\ Len(k_pq) > 0 /\ k_pq[1].level = k_n
            /\ ~FracLE(k_pq[1].bound, Frac(k_max_profit, 1)))
        => k_max_profit' = IF k_pq[1].profit > k_max_profit
                           THEN k_pq[1].profit ELSE k_max_profit
    /\ (j_pc = "loop" /\ Len(j_pq) > 0 /\ j_pq[1].level = j_n
            /\ j_pq[1].bound < j_min_cost)
        => j_min_cost' = IF j_pq[1].cost < j_min_cost
                         THEN j_pq[1].cost ELSE j_min_cost
    /\ (t_pc = "loop" /\ Len(t_pq) > 0 /\ t_pq[1].level = t_n
            /\ t_pq[1].bound < t_best_cost)
        => t_best_cost' = IF C20_tsp_objective(t_pq[1], with_return) < t_best_cost
                          THEN C20_tsp_objective(t_pq[1], with_return)
                          ELSE t_best_cost

\* C20: when a driver pops a terminal node (level = problem size) that is
\* not pruned, the value compared with the incumbent and stored as the new
\* incumbent is the node's profit in solve_knapsack and the node's cost in
\* solve_assignment; in solve_tsp it is the node's cost plus the edge from the
\* last city of the path back to city 0.
C20_TerminalObjective == [][C20_TerminalStep(TRUE)]_vars

\* C20 as stated: in solve_tsp, too, the value compared and stored is the
\* node's cost field itself.
C20_TerminalAccrued == [][C20_TerminalStep(FALSE)]_vars

\* solve_tsp has accepted a tour whose edge back to city 0 is not 0
C20_Witness ==
    /\ t_pc = "loop" /\ t_best_cost < INF
    /\ t_graph[t_best_path[t_n] + 1][1] > 0

----------------------------------------------------------------------------
\* Claims about the queued nodes

\* C23: every node in a driver's queue satisfies the hard constraints of its
\* problem: in solve_knapsack its weight is <= capacity and is the summed
\* weight of its included items; in solve_assignment the jobs in
\* assignment[0..level) are pairwise distinct and are exactly the ones marked
\* in worker_used; in solve_tsp path[0] = 0 and path[0..level) repeats no city.
C23_QueuedNodesFeasible ==
    /\ \A q \in 1..Len(k_pq) :
          LET node == k_pq[q] IN
          /\ node.weight <= k_capacity
          /\ node.weight = SumField(k_items,
                 {i \in 1..k_n : node.included[i] = 1}, "weight")
    /\ \A q \in 1..Len(j_pq) :
          LET node == j_pq[q]
              jobs == {node.assignment[w] : w \in 1..node.level}
          IN /\ Cardinality(jobs) = node.level
             /\ jobs = {job \in 0..(j_n - 1) : node.worker_used[job + 1] = 1}
    /\ \A q \in 1..Len(t_pq) :
          LET node == t_pq[q] IN
          /\ node.path[1] = 0
          /\ Cardinality({node.path[i] : i \in 1..node.level}) = node.level

\* solve_knapsack holds a node with two included items in its queue after a
\* step that left out an include child which did not fit
C23_Witness ==
    /\ k_pc = "loop" /\ Cardinality(k_built) = 1
    /\ \E q \in 1..Len(k_pq) :
          Cardinality({i \in 1..k_n : k_pq[q].included[i] = 1}) >= 2

----------------------------------------------------------------------------
\* Claims about the content of the heap

\* the number of positions of the array that hold the node
h_count(pq, node) == Cardinality({i \in 1..Len(pq) : pq[i] = node})

\* C26: pq_push stores exactly one more node and pq_pop exactly one fewer;
\* apart from the node pushed or popped, the queue after the call holds every
\* node as many times as before it, so the stored nodes are always the pushed
\* ones less the popped ones.
C26_ContentPreserved ==
    LET nodes == Range(h_before) \cup Range(h_pq) IN
    IF h_popped # <<>>
    THEN /\ Len(h_pq) = Len(h_before) - 1
         /\ \A node \in nodes :
               h_count(h_pq, node) = h_count(h_before, node)
                                     - (IF node = h_popped[1] THEN 1 ELSE 0)
    ELSE \/ h_pq = <<>> /\ h_before = <<>>
         \/ /\ Len(h_pq) = Len(h_before) + 1
            /\ \E pushed \in Range(h_pq) :
                  \A node \in nodes :
                     h_count(h_pq, node) = h_count(h_before, node)
                                           + (IF node = pushed THEN 1 ELSE 0)

\* a pop from a queue that held the same node twice, which moved the last
\* node of the array to a different place
C26_Witness ==
    /\ h_popped # <<>>
    /\ Len(h_before) >= 4
    /\ \E node \in Range(h_before) : h_count(h_before, node) = 2
    /\ h_pq # SubSeq(h_before, 2, Len(h_before))
    /\ h_pq[1] # h_before[Len(h_before)]

----------------------------------------------------------------------------
\* Claims about the incumbent of solve_assignment

\* C27: solve_assignment assigns its incumbent at most once per run: a queued
\* complete assignment has bound = cost, and once min_cost has been set by the
\* first complete assignment popped, min_cost and best_assignment never change
\* again and every later iteration is the pruning one, which pushes no child.
C27_IncumbentOnce ==
    [][/\ \A q \in 1..Len(j_pq) :
             j_pq[q].level = j_n => j_pq[q].bound = j_pq[q].cost
       /\ (j_pc = "loop" /\ j_min_cost # INF) =>
             /\ j_min_cost' = j_min_cost
             /\ j_best_assignment' = j_best_assignment
             /\ Len(j_pq) > 0 =>
                   /\ j_nodes_pruned' = j_nodes_pruned + 1
                   /\ Len(j_pq') = Len(j_pq) - 1
                   /\ j_built' = {}]_vars

\* solve_assignment has set its incumbent, has pruned two nodes since, and
\* still has a node to pop
C27_Witness ==
    /\ j_pc = "loop"
    /\ j_min_cost # INF
    /\ j_nodes_pruned >= 2
    /\ j_built = {}
    /\ Len(j_pq) > 0

----------------------------------------------------------------------------
\* Claims about the stored knapsack solution

\* C28: in every state of solve_knapsack after its initialisation, the items
\* with best_solution[i] = 1 (indices of the ratio-sorted array) have total
\* weight <= capacity and total value exactly max_profit.
C28_BestSolutionConsistent ==
    k_pc \in {"loop", "done"} =>
        LET chosen == {i \in 1..k_n : k_best_solution[i] = 1} IN
        /\ Len(k_best_solution) = k_n
        /\ SumField(k_items, chosen, "weight") <= k_capacity
        /\ SumField(k_items, chosen, "value") = k_max_profit

\* solve_knapsack has stored a solution of two or more items that does not
\* fill the knapsack and leaves an item out
C28_Witness ==
    /\ k_pc = "loop"
    /\ k_max_profit > 0
    /\ LET chosen == {i \in 1..k_n : k_best_solution[i] = 1} IN
       /\ Cardinality(chosen) >= 2
       /\ Cardinality(chosen) < k_n
       /\ SumField(k_items, chosen, "weight") < k_capacity

----------------------------------------------------------------------------
\* Claims about solve_optimized

\* C29: in solve_optimized every node (queued, popped or just built) has
\* conflicts = 0 and bound = 0; neither the pruning test on a popped node nor
\* the test on a child ever discards a node, so every child built is in the
\* queue and nodes_pruned is 0 throughout and at the end.
C29_NoConflictNoPruning ==
    n_pc \in {"loop", "done"} =>
        /\ \A node \in Range(n_pq) \cup Range(n_current) \cup n_built :
              node.conflicts = 0 /\ node.bound = 0
        /\ n_built \subseteq Range(n_pq)
        /\ n_result.nodes_pruned = 0

\* solve_optimized has branched on a node of level >= 2 after a first
\* solution was recorded, so both tests were made against an incumbent
C29_Witness ==
    /\ n_pc = "loop"
    /\ d_ge(n_result.best_solution.score, d_of_int(0))
    /\ n_current # <<>> /\ n_current[1].level >= 2
    /\ Cardinality(n_built) >= 2

\* the queens of a placement are in n rows and columns and no two of them
\* share a column or a diagonal
n_valid_placement(placement) ==
    /\ Len(placement) = n_n
    /\ \A row \in 1..n_n : placement[row] \in 0..(n_n - 1)
    /\ \A r1, r2 \in 1..n_n :
          r1 < r2 => /\ placement[r1] # placement[r2]
                     /\ Abs(placement[r1] - placement[r2]) # r2 - r1

\* C30: every solution recorded in result.solutions is a valid N-Queens
\* placement, and result.solution_count, the number of recorded solutions,
\* never exceeds max_solutions.
C30_SolutionsValid ==
    n_pc \in {"loop", "done"} =>
        /\ n_result.solution_count <= n_max_solutions
        /\ n_result.solution_count = Len(n_result.solutions)
        /\ \A s \in 1..Len(n_result.solutions) :
              n_valid_placement(n_result.solutions[s].placement)

\* solve_optimized has returned max_solutions >= 2 solutions of a board of
\* five or more rows and left nodes in its queue
C30_Witness ==
    /\ n_pc = "done"
    /\ n_n >= 5
    /\ n_result.solution_count = n_max_solutions
    /\ n_max_solutions >= 2
    /\ Len(n_pq) > 0

\* C24: solve_optimized runs to exhaustion: its loop is left only when the
\* priority queue is empty, so when the result is returned every node that
\* was pushed has been popped.
C24_RunsToExhaustion ==
    n_pc = "done" => Len(n_pq) = 0

\* the columns of the children built in a step
C22_child_columns(current, built) ==
    {child.placement[current.level + 1] : child \in built}

\* C22: branching in solve_optimized is exhaustive: in every mode, every
\* iteration that expands a non-terminal node (popped and not pruned) builds
\* one child for each column col of row node.level for which can_place
\* holds, each child being the node with that one queen added.
C22_BranchingExhaustive ==
    [][(n_pc = "loop" /\ n_loop_condition /\ n_pq_top(n_pq).level # n_n
            /\ ~n_pruned(n_pq_top(n_pq))) =>
          LET current == n_pq_top(n_pq) IN
          /\ C22_child_columns(current, n_built')
                = {col \in 0..(n_n - 1) : n_can_place(current, current.level, col)}
          /\ \A child \in n_built' :
                /\ child.level = current.level + 1
                /\ SubSeq(child.placement, 1, current.level) = current.placement
      ]_vars

----------------------------------------------------------------------------
\* Claims about the test on a child

\* the children built in a step that were not pushed
C21_not_pushed(built, pq) == {child \in built : child \notin Range(pq)}

----------------------------------------------------------------------------
\* Claims about the Nodes of Design Strategies/Branch_Bound.c

\* C25: between two dequeues, the Nodes obtained from calloc and not freed
\* are exactly the Nodes in the queue, each of them once (a Node was either
\* enqueued or freed at once, and the dequeued Node was freed), no Node has
\* been freed twice, and when the loop has ended the queue is empty and
\* every Node obtained from calloc has been freed.
C25_NodeLifetime ==
    b_pc \in {"loop", "done"} =>
        /\ \A a \in 1..Len(b_heap) : b_heap[a] <= 1
        /\ {a \in 1..Len(b_heap) : b_heap[a] = 0}
              = {b_q[i].addr : i \in 1..Len(b_q)}
        /\ \A i, j \in 1..Len(b_q) : b_q[i].addr = b_q[j].addr => i = j
        /\ b_pc = "done" => Len(b_q) = 0 /\ \A a \in 1..Len(b_heap) : b_heap[a] = 1

\* the loop has ended after Nodes were freed as leaves, as children that
\* were not enqueued and as expanded nodes
C25_Witness ==
    /\ b_pc = "done"
    /\ Len(b_heap) >= 7
    /\ b_maxProfit > 0

====
